---- MODULE Spec2Model ----
(***************************************************************************)
(* Model of the MMU-notifier bookkeeping of the amdgpu driver              *)
(* (amd/amdgpu/amdgpu_mn.c): the per-(mm, type) notifier context with its  *)
(* interval tree of nodes, the registration of userptr buffer objects, and *)
(* the read/write locking between invalidation walks and registration.     *)
(*                                                                         *)
(* One address space (current->mm) is modelled; a context is named by its  *)
(* type, "GFX" or "HSA".  A node of the interval tree is a record          *)
(* [start, last, bos]; node->bos, a list_head in the source, is kept as    *)
(* the set of its members (no operation depends on the list order).        *)
(***************************************************************************)
EXTENDS Integers, FiniteSets, Sequences, Bags, TLC

\* ------------------------------------------------------------------ bounds
NumBO == 3          \* buffer objects
AddrLimit == 3      \* unsigned long arithmetic is taken modulo AddrLimit
MaxSize == 2        \* largest amdgpu_bo_size() handed to register
MaxDepth == 2       \* range-starts that may await their range-end at a time
MaxCtx == 4         \* notifier contexts that kzalloc can hand out at a time
MaxHandle == 2      \* the largest id of the idr (INT_MAX in the source)
MaxLeak == 1        \* failed idr_alloc calls that are followed up
MaxProc == 2        \* kfd_process structures that are ever allocated
MaxShared == 2      \* shared fences of a reservation object
MaxTimeout == 2     \* jiffies a wait is given
MaxFences == 2      \* fences of one _kcl_fence_wait_any_timeout call
MaxEvict == 4       \* evictions of a process that are not yet restored

BOs == 1..NumBO
Addrs == 0..(AddrLimit - 1)
Sizes == 1..MaxSize
Types == {"GFX", "HSA"}
NULL == "NULL"
\* the buffers used where both contexts and the notifier callbacks take part
WalkBOs == {1, 2}
\* the values of a fence wait: an error, a timeout, the remaining time
WaitResults == {-1, 0, 1}
\* the threads: two that deliver notifier callbacks, one that registers and
\* unregisters buffers, and the worker that runs the scheduled work items
Walkers == {"w1", "w2"}
Writer == "wr"
Worker == "wk"
Threads == Walkers \cup {Writer, Worker}
\* the threads that call amdgpu_mn_get
Getters == {"g1", "g2"}
\* the address spaces of the callers of amdgpu_mn_get: two mm_struct
\* pointers, which are aligned so that their low bits are zero
MMs == {8, 16}
\* what identifies a context to its users: rmn->mm and rmn->type
Ctxs == MMs \X Types
\* the locals of a thread that is not in amdgpu_mn_get
NoGet == [pc |-> "idle", mm |-> 0, type |-> NULL, rmn |-> NULL,
          ret |-> "none", snap |-> NULL]
\* the locals of the registering thread outside a call
NoCall == [op |-> "none", bo |-> 0, ctx |-> NULL, addr |-> 0, end |-> 0,
           bos |-> {}, node |-> FALSE]
\* the devices a process has per-device data for
Devs == {1, 2}
\* the null kfd_process_device pointer
NoPdd == [evicted |-> -1, state |-> "none"]
\* the record of a call on the per-device data
ERet(op, dev, ok) == [op |-> op, dev |-> dev, ok |-> ok]

\* the kfd_process structures, the threads that call kfd_create_process (they
\* share one mm), the threads that look a process up, and the one the
\* release notification of the mm runs on
PIds == 1..MaxProc
Creators == {"c1", "c2"}
Lookers == {"l1", "l2"}
Notifier == "mn"
PThreads == Creators \cup Lookers \cup {Notifier}
\* memory that holds no kfd_process
NoProcess == [st |-> "none", mm |-> 0, pasid |-> 0, ref |-> 0, work |-> FALSE]

\* a fence nobody waits for
NoWait ==
  [pc |-> "idle", signaled |-> FALSE, enable |-> FALSE, intr |-> FALSE,
   timeout |-> 0, sigpend |-> FALSE, ret |-> 0, cb |-> FALSE,
   entry |-> FALSE, expired |-> FALSE]

\* the delayed works of a process and the threads that ask for an eviction
Works == {"evict", "restore"}
Requesters == {"r1", "r2"}

\* a process as create_process returns it (lines 635-644): it is in the
\* process table, its works are initialised and not queued
LiveProcess ==
  [npc |-> "idle", table |-> TRUE,
   pending |-> [w \in Works |-> FALSE], running |-> [w \in Works |-> FALSE],
   req |-> [r \in Requesters |-> "idle"]]

\* no call of _kcl_fence_wait_any_timeout
NoAny ==
  [pc |-> "idle", fences |-> <<>>, intr |-> FALSE, i |-> 0, ret |-> 0,
   cbs |-> {}, added |-> {}, removed |-> {}, path |-> "none"]

\* a reservation object nobody waits on
NoResv ==
  [pc |-> "idle", excl |-> 0, shared |-> <<>>, wait_all |-> FALSE,
   intr |-> FALSE, fence |-> -1, i |-> 0, shared_count |-> 0, ret |-> 0]

\* the null kfd_bo pointer
NoBo == [start |-> 0, last |-> -1, mem |-> 0, kfd_ipc_obj |-> NULL,
         freed |-> FALSE]

\* the memory objects create_process makes: the IB and the CWSR memory of
\* each device
GpuMems == 1..(2 * Cardinality(Devs))

\* no process: nothing is allocated, hashed, registered or referenced
NoCreate ==
  [pc |-> "idle", err |-> 0, fault |-> "none", alloc |-> FALSE,
   table |-> FALSE, pasid |-> FALSE, notifier |-> FALSE, lead |-> 0,
   pdds |-> {}, k |-> 0,
   idr |-> [d \in Devs |-> [h \in 1..MaxHandle |-> NoBo]],
   tree |-> {}, dangling |-> FALSE, made |-> {},
   mapped |-> [m \in GpuMems |-> {}], frees |-> [m \in GpuMems |-> 0],
   unmaps |-> [m \in GpuMems |-> {}], swept |-> FALSE, hfail |-> FALSE]

\* the record of a call on the handle table: its handle argument, the value it
\* returned, the kfd_bo it returned, whether it faulted, the number of
\* ipc_obj_put calls and of pr_err lines it made, the range it was asked for
HRet(op, handle, ret) ==
  [op |-> op, handle |-> handle, ret |-> ret, bo |-> NoBo, fault |-> FALSE,
   put |-> 0, log |-> 0, start |-> 0, last |-> 0]

VARIABLES
  mn_hash,     \* adev->mn_hash: the contexts that exist (set of types)
  objects,     \* rmn->objects: per context, the set of nodes in the tree
  bo_mn,       \* bo->mn: the context the buffer is registered with, or NULL
  userptr,     \* gtt->userptr of the buffer (the address it was created for)
  bo_size,     \* amdgpu_bo_size(bo)
  recursion,   \* rmn->recursion
  rw_readers,  \* rmn->lock: the number of read holds
  pending,     \* per context, the range-starts whose range-end is to come
  last,        \* the call that returned last, see Ret and WalkRet
  rw_writer,   \* rmn->lock: the thread that holds it for writing, or NULL
  rw_waiting,  \* rmn->lock: the threads queued in down_write
  read_lock,   \* rmn->read_lock: the thread that holds the mutex, or NULL
  mn_lock,     \* adev->mn_lock: the thread that holds the mutex, or NULL
  pc,          \* per thread, the statement it is at
  t_ctx,       \* per notifier thread, the context its callback is for
  t_queued,    \* per notifier thread, whether a writer was queued on the
               \* semaphore when it entered amdgpu_mn_read_lock
  wl,          \* the locals of the call the registering thread is in
  work,        \* the contexts whose rmn->work is scheduled and has not run
  d_ctx,       \* the context of the work item the worker runs, or NULL
  reg,         \* adev->mn_hash with the contexts of all address spaces: the
               \* number of entries with rmn->mm = mm and rmn->type = type
  mmap_sem,    \* mm->mmap_sem per address space: its write holder, or NULL
  gl,          \* per thread in amdgpu_mn_get: its statement and locals
  alloc_idr,   \* pdd->alloc_idr: per id the kfd_bo stored under it, or NoBo
  bo_interval_tree,  \* p->bo_interval_tree: the bag of the kfd_bo in it
  h_last,      \* the call on the handle table that returned last
  pdds,        \* p->per_device_data: per device the pdd of the process, or
               \* NoPdd
  e_last,      \* the call on the per-device data that returned last
  kfd_processes_table,  \* the kfd_process structures that are hashed
  procs,       \* the kfd_process structures: st (none, new: in create_process,
               \* ok, failed: freed by create_process, freed: freed by the
               \* release work), mm, pasid, ref, work (release_work queued)
  kfd_processes_mutex,  \* its owner, or NULL
  srcu_readers,         \* the threads in a read section of kfd_processes_srcu
  srcu_wait,   \* the readers a running synchronize_srcu still waits for
  ppc,         \* per thread of the process table: where it is
  p_loc,       \* per thread: its kfd_process pointer, 0 for NULL, negative
               \* for ERR_PTR
  created,     \* the processes that kfd_create_process has returned
  mm_alive,    \* the address space has not been torn down
  rcu_cb,      \* the process kfd_process_destroy_delayed is pending for, or 0
  p_uaf,       \* a freed kfd_process has been read or written
  fw,          \* a fence, the task that waits for it and the locals of
               \* _kcl_fence_default_wait
  cp,          \* one create_process call: what it has set up for the
               \* process, per device and per buffer, and where it is
  ew,          \* the eviction and the restore work of a process, its
               \* entry in the process table, the notifier release and
               \* the requests for an eviction
  wa,          \* the fences given to _kcl_fence_wait_any_timeout, the
               \* callbacks on their lists and the locals of the call
  resv         \* a reservation object (fence_excl: 0 none, 1 unsignaled, 2
               \* signaled; shared: per shared fence whether it has
               \* signaled) and the locals of the wait on it

\* the state of the threads and of the locks they block on
dvars == <<work, d_ctx>>
\* the registry of the device as amdgpu_mn_get sees it
gvars == <<reg, mmap_sem, gl>>
\* the state that the calls on one address space leave alone
\* the handle table of one process on one device
hvars == <<alloc_idr, bo_interval_tree, h_last>>
\* the per-device data of one process
evars == <<pdds, e_last>>
\* what the calls of amdgpu_mn_get, and those on the handle table, leave alone
\* the table of processes
pvars ==
  <<kfd_processes_table, procs, kfd_processes_mutex, srcu_readers, srcu_wait,
    ppc, p_loc, created, mm_alive, rcu_cb, p_uaf>>
\* the fences and reservation objects of the compatibility layer, and the
\* process that create_process sets up
kvars == <<resv, fw, wa, cp, ew>>
notgvars == <<hvars, evars, pvars, kvars>>
nothvars == <<gvars, evars, pvars, kvars>>
ovars == <<gvars, hvars, evars, pvars, kvars>>
tvars == <<rw_writer, rw_waiting, read_lock, mn_lock, pc, t_ctx, t_queued, wl,
           dvars, ovars>>

vars == <<mn_hash, objects, bo_mn, userptr, bo_size, recursion, rw_readers,
          pending, last, tvars>>

\* the buffers registered with context c
Registered(c) == {b \in BOs : bo_mn[b] = c}

\* the record of a call that is not an invalidation walk
Ret(op, ret) ==
  [op |-> op, ret |-> ret, ctx |-> NULL, start |-> 0, end |-> 0,
   waited |-> {}, failed |-> {}, marked |-> {}, evicted |-> {},
   visited |-> <<>>]

\* ------------------------------------------------------------ interval tree
Min(a, b) == IF a < b THEN a ELSE b
Max(a, b) == IF a > b THEN a ELSE b

\* (variant: the two ends compared strictly, so that ranges meeting in a single
\* address do not match)
Overlaps_strict(n, start, lst) == n.start < lst /\ start < n.last

\* the match condition of interval_tree_iter_first/_next for the query
\* [start, last]: node.start <= last and start <= node.last
Overlaps(n, start, lst) == n.start <= lst /\ start <= n.last

\* the null node pointer
NoNode == [start |-> -1, last |-> -1, bos |-> {}]

\* interval_tree_iter_first: the overlapping node with the lowest start
\* (NoNode when there is none)
interval_tree_iter_first(tree, start, lst) ==
  LET S == {n \in tree : Overlaps(n, start, lst)}
  IN IF S = {} THEN NoNode
     ELSE CHOOSE n \in S : \A m \in S : n.start < m.start
                                      \/ (n.start = m.start /\ n.last <= m.last)

\* ------------------------------------------------------ amdgpu_mn_register
\* the end of the registered range, line 478
RangeEnd(addr, size) == (addr + size - 1) % AddrLimit

\* (variant: an if in place of the while, only the first overlapping node is
\* merged)
MergeLoop_once(tree, addr, end, bos, node) ==
  LET it == interval_tree_iter_first(tree, addr, end)
  IN IF it = NoNode
     THEN [tree |-> tree, addr |-> addr, end |-> end, bos |-> bos, node |-> node]
     ELSE [tree |-> tree \ {it}, addr |-> Min(it.start, addr),
           end |-> Max(it.last, end), bos |-> it.bos \cup bos, node |-> TRUE]

\* (variant: the start of the range is not widened to the merged nodes)
RECURSIVE MergeLoop_nomin(_, _, _, _, _)
MergeLoop_nomin(tree, addr, end, bos, node) ==
  LET it == interval_tree_iter_first(tree, addr, end)
  IN IF it = NoNode
     THEN [tree |-> tree, addr |-> addr, end |-> end, bos |-> bos, node |-> node]
     ELSE MergeLoop_nomin(tree \ {it}, addr, Max(it.last, end),
                          it.bos \cup bos, TRUE)

\* the while loop of lines 495-502: every overlapping node is taken out of
\* the tree, the range is widened to cover it and its list is spliced to bos;
\* node tells whether a removed node is kept for reuse
RECURSIVE MergeLoop(_, _, _, _, _)
MergeLoop(tree, addr, end, bos, node) ==
  LET it == interval_tree_iter_first(tree, addr, end)
  IN IF it = NoNode
     THEN [tree |-> tree, addr |-> addr, end |-> end, bos |-> bos, node |-> node]
     ELSE MergeLoop(tree \ {it}, Min(it.start, addr), Max(it.last, end),
                    it.bos \cup bos, TRUE)

\* (variant: the lists of the merged nodes are not spliced into the node)
InsertNode_nosplice(m, bo) ==
  m.tree \cup {[start |-> m.addr, last |-> m.end, bos |-> {bo}]}

\* lines 514-520: the node gets the widened range and the spliced list plus
\* the buffer, and is inserted
InsertNode(m, bo) ==
  m.tree \cup {[start |-> m.addr, last |-> m.end, bos |-> m.bos \cup {bo}]}

\* amdgpu_mn_get, lines 399-465: the context of the type, created when it is
\* not in the hash; fault is the step that fails, if any
amdgpu_mn_get(hash, type, fault) ==
  IF fault = "EINTR" THEN [ret |-> "EINTR", hash |-> hash]
  ELSE IF type \in hash THEN [ret |-> "ok", hash |-> hash]
  ELSE IF fault = "ENOMEM" THEN [ret |-> "ENOMEM", hash |-> hash]
  ELSE IF fault = "EREG" THEN [ret |-> "EREG", hash |-> hash]
  ELSE [ret |-> "ok", hash |-> hash \cup {type}]

GetFaults == {"none", "EINTR", "ENOMEM", "EREG"}

\* amdgpu_mn_register(bo, addr) for a buffer of the given size; kfd_bo selects
\* the type; alloc is whether kmalloc of the node succeeds.  The callers
\* register a buffer object once, right after creating it with its userptr
\* and size, and drop the object when the call fails.
amdgpu_mn_register(bo, addr, size, kfd_bo, fault, alloc) ==
  LET type == IF kfd_bo THEN "HSA" ELSE "GFX"
      g == amdgpu_mn_get(mn_hash, type, fault)
      m == MergeLoop(objects[type], addr, RangeEnd(addr, size), {}, FALSE)
      ret == IF g.ret # "ok" THEN g.ret
             ELSE IF ~m.node /\ ~alloc THEN "ENOMEM" ELSE "ok"
  IN /\ bo_mn[bo] = NULL
     /\ g.ret = "ok" => rw_readers[type] = 0       \* down_write, line 493
     /\ mn_hash' = g.hash
     /\ last' = Ret("register", ret)
     /\ UNCHANGED <<recursion, rw_readers, pending, tvars>>
     /\ IF ret # "ok"
        THEN UNCHANGED <<objects, bo_mn, userptr, bo_size>>
        ELSE /\ bo_mn' = [bo_mn EXCEPT ![bo] = type]
             /\ objects' = [objects EXCEPT ![type] = InsertNode(m, bo)]
             /\ userptr' = [userptr EXCEPT ![bo] = addr]
             /\ bo_size' = [bo_size EXCEPT ![bo] = size]

\* ---------------------------------------------------- amdgpu_mn_unregister
\* list_del_init(&bo->mn_list), line 554: the buffer leaves the list it is in
list_del_init(tree, bo) ==
  {[n EXCEPT !.bos = n.bos \ {bo}] : n \in tree}

\* (variant: the node is kept in the tree when its list became empty)
RemoveEmptyNode_keep(tree) == tree

\* lines 556-561: the node whose list became empty is removed from the tree
\* and freed
RemoveEmptyNode(tree) == {n \in tree : n.bos # {}}

\* (variant: the buffer is not taken out of the list)
UnlinkBo_none(tree, bo) == tree

\* lines 551-561 of amdgpu_mn_unregister
UnlinkBo(tree, bo) == RemoveEmptyNode(list_del_init(tree, bo))

\* amdgpu_mn_unregister(bo); it is called when the buffer object is being
\* released, so the object's userptr and size end with the call
amdgpu_mn_unregister(bo) ==
  LET rmn == bo_mn[bo]
  IN /\ rmn # NULL => rw_readers[rmn] = 0         \* down_write, line 548
     /\ last' = Ret("unregister", "ok")
     /\ UNCHANGED <<recursion, rw_readers, pending, tvars>>
     /\ userptr' = [userptr EXCEPT ![bo] = 0]
     /\ bo_size' = [bo_size EXCEPT ![bo] = 1]
     /\ IF rmn = NULL
        THEN UNCHANGED <<mn_hash, objects, bo_mn>>
        ELSE /\ bo_mn' = [bo_mn EXCEPT ![bo] = NULL]
             /\ objects' = [objects EXCEPT ![rmn] = UnlinkBo(objects[rmn], bo)]
             /\ UNCHANGED mn_hash

\* ------------------------------------------------------ read side locking
\* (variant: the semaphore is taken on every call, not only on the first)
TakesSem_always(r) == TRUE

\* line 149: the semaphore is taken when atomic_inc_return gave 1
TakesSem(r) == r = 1

\* (variant: the semaphore is released on every call)
DropsSem_always(r) == TRUE

\* line 163: the semaphore is released when atomic_dec_return gave 0
DropsSem(r) == r = 0

\* amdgpu_mn_read_lock, lines 146-152, when nothing blocks it: the counter is
\* incremented and the semaphore is taken for reading on the first hold
amdgpu_mn_read_lock(rec, readers) ==
  [recursion |-> rec + 1,
   rw_readers |-> IF TakesSem(rec + 1) THEN readers + 1 ELSE readers]

\* amdgpu_mn_read_unlock, lines 161-165: the counter is decremented and the
\* semaphore is released with the last hold
amdgpu_mn_read_unlock(rec, readers) ==
  [recursion |-> rec - 1,
   rw_readers |-> IF DropsSem(rec - 1) THEN readers - 1 ELSE readers]

\* --------------------------------------------------------- invalidation walk
\* amdgpu_ttm_tt_affect_userptr (amdgpu_ttm.c): whether the range the buffer
\* is mapped at, [userptr, userptr + size - 1], intersects [start, end]
amdgpu_ttm_tt_affect_userptr(bo, start, end) ==
  userptr[bo] <= end /\ start <= RangeEnd(userptr[bo], bo_size[bo])

\* the nodes that interval_tree_iter_first and interval_tree_iter_next
\* deliver for [start, end], lines 263-268 and 319-325
RECURSIVE IterNodes(_, _, _)
IterNodes(tree, start, end) ==
  LET it == interval_tree_iter_first(tree, start, end)
  IN IF it = NoNode THEN {}
     ELSE {it} \cup IterNodes(tree \ {it}, start, end)

\* the same nodes in the order in which the loop of the walk takes them
RECURSIVE IterSeq(_, _, _)
IterSeq(tree, start, end) ==
  LET it == interval_tree_iter_first(tree, start, end)
  IN IF it = NoNode THEN <<>>
     ELSE <<it>> \o IterSeq(tree \ {it}, start, end)

\* (variant: the end of the range is taken as it was delivered)
InclusiveEnd_same(end) == end

\* "notification is exclusive, but interval is inclusive": end -= 1, lines
\* 258-259 and 316-317
InclusiveEnd(end) == end - 1

\* (variant: the pages are not marked when the wait failed)
amdgpu_mn_invalidate_node_skip(node, start, end, r) ==
  LET A == {bo \in node.bos : amdgpu_ttm_tt_affect_userptr(bo, start, end)}
  IN [waited |-> A, failed |-> {bo \in A : r[bo] <= 0},
      marked |-> {bo \in A : r[bo] > 0}]

\* amdgpu_mn_invalidate_node, lines 175-194: for every buffer of the node that
\* is affected, the fence wait (result r[bo]) is made, a result <= 0 is logged
\* and the user pages are marked
amdgpu_mn_invalidate_node(node, start, end, r) ==
  LET A == {bo \in node.bos : amdgpu_ttm_tt_affect_userptr(bo, start, end)}
  IN [waited |-> A, failed |-> {bo \in A : r[bo] <= 0}, marked |-> A]

\* the record of a range-start callback on context c for [start, end): the
\* nodes its loop took, in order, and what it did to which buffers
WalkRet(c, start, end, visited, waited, failed, marked, evicted) ==
  [op |-> "range_start", ret |-> "ok", ctx |-> c, start |-> start,
   end |-> end, waited |-> waited, failed |-> failed, marked |-> marked,
   evicted |-> evicted, visited |-> visited]

\* amdgpu_mn_invalidate_range_start_gfx(start, end), lines 250-272, on the
\* graphics context; r gives the result of each fence wait
amdgpu_mn_invalidate_range_start_gfx(start, end, r) ==
  LET c == "GFX"
      e == InclusiveEnd(end)
      l == amdgpu_mn_read_lock(recursion[c], rw_readers[c])
      N == IterNodes(objects[c], start, e)
      W == [n \in N |-> amdgpu_mn_invalidate_node(n, start, e, r)]
  IN /\ c \in mn_hash
     /\ pending["GFX"] + pending["HSA"] < MaxDepth
     /\ recursion' = [recursion EXCEPT ![c] = l.recursion]
     /\ rw_readers' = [rw_readers EXCEPT ![c] = l.rw_readers]
     /\ pending' = [pending EXCEPT ![c] = @ + 1]
     /\ last' = WalkRet(c, start, end, IterSeq(objects[c], start, e),
                        UNION {W[n].waited : n \in N},
                        UNION {W[n].failed : n \in N},
                        UNION {W[n].marked : n \in N}, {})
     /\ UNCHANGED <<mn_hash, objects, bo_mn, userptr, bo_size, tvars>>

\* (variant: every buffer of the node is evicted)
EvictNode_all(node, start, end) == node.bos

\* the loop over the bo list of a node in the compute callback, lines 326-333:
\* the buffers that are affected are handed to amdgpu_amdkfd_evict_userptr,
\* and nothing else is done to them: no fence is waited for, no page marked
EvictNode(node, start, end) ==
  {bo \in node.bos : amdgpu_ttm_tt_affect_userptr(bo, start, end)}

\* (variant: the read lock is dropped again before the callback returns)
amdgpu_mn_invalidate_range_start_hsa_unlock(start, end) ==
  LET c == "HSA"
      e == InclusiveEnd(end)
      N == IterNodes(objects[c], start, e)
  IN /\ c \in mn_hash
     /\ pending["GFX"] + pending["HSA"] < MaxDepth
     /\ pending' = [pending EXCEPT ![c] = @ + 1]
     /\ last' = WalkRet(c, start, end, IterSeq(objects[c], start, e),
                        {}, {}, {},
                        UNION {EvictNode(n, start, e) : n \in N})
     /\ UNCHANGED <<mn_hash, objects, bo_mn, userptr, bo_size, recursion,
                    rw_readers, tvars>>

\* amdgpu_mn_invalidate_range_start_hsa(start, end), lines 306-335, on the
\* compute context: every affected buffer of the matching nodes is handed to
\* amdgpu_amdkfd_evict_userptr
amdgpu_mn_invalidate_range_start_hsa(start, end) ==
  LET c == "HSA"
      e == InclusiveEnd(end)
      l == amdgpu_mn_read_lock(recursion[c], rw_readers[c])
      N == IterNodes(objects[c], start, e)
  IN /\ c \in mn_hash
     /\ pending["GFX"] + pending["HSA"] < MaxDepth
     /\ recursion' = [recursion EXCEPT ![c] = l.recursion]
     /\ rw_readers' = [rw_readers EXCEPT ![c] = l.rw_readers]
     /\ pending' = [pending EXCEPT ![c] = @ + 1]
     /\ last' = WalkRet(c, start, end, IterSeq(objects[c], start, e),
                        {}, {}, {},
                        UNION {EvictNode(n, start, e) : n \in N})
     /\ UNCHANGED <<mn_hash, objects, bo_mn, userptr, bo_size, tvars>>

\* amdgpu_mn_invalidate_range_end, lines 284-292, of either context; the
\* notifier calls it once for every range-start
amdgpu_mn_invalidate_range_end(c) ==
  LET u == amdgpu_mn_read_unlock(recursion[c], rw_readers[c])
  IN /\ pending[c] > 0
     /\ recursion' = [recursion EXCEPT ![c] = u.recursion]
     /\ rw_readers' = [rw_readers EXCEPT ![c] = u.rw_readers]
     /\ pending' = [pending EXCEPT ![c] = @ - 1]
     /\ last' = [Ret("range_end", "ok") EXCEPT !.ctx = c]
     /\ UNCHANGED <<mn_hash, objects, bo_mn, userptr, bo_size, tvars>>

\* ------------------------------------------------------------ specification
Init ==
  /\ mn_hash = {}
  /\ objects = [c \in Types |-> {}]
  /\ bo_mn = [b \in BOs |-> NULL]
  /\ userptr = [b \in BOs |-> 0]
  /\ bo_size = [b \in BOs |-> 1]
  /\ recursion = [c \in Types |-> 0]
  /\ rw_readers = [c \in Types |-> 0]
  /\ pending = [c \in Types |-> 0]
  /\ last = Ret("none", "ok")
  /\ rw_writer = [c \in Types |-> NULL]
  /\ rw_waiting = [c \in Types |-> {}]
  /\ read_lock = [c \in Types |-> NULL]
  /\ mn_lock = NULL
  /\ pc = [t \in Threads |-> "idle"]
  /\ t_ctx = [t \in Walkers |-> "GFX"]
  /\ t_queued = [t \in Walkers |-> FALSE]
  /\ wl = NoCall
  /\ work = {}
  /\ d_ctx = NULL
  /\ reg = [c \in Ctxs |-> 0]
  /\ mmap_sem = [mm \in MMs |-> NULL]
  /\ gl = [t \in Getters |-> NoGet]
  /\ alloc_idr = [h \in 0..MaxHandle |-> NoBo]
  /\ bo_interval_tree = EmptyBag
  /\ h_last = HRet("none", 0, 0)
  /\ pdds = [d \in Devs |-> NoPdd]
  /\ e_last = ERet("none", 0, TRUE)
  /\ kfd_processes_table = {}
  /\ procs = [i \in PIds |-> NoProcess]
  /\ kfd_processes_mutex = NULL
  /\ srcu_readers = {}
  /\ srcu_wait = {}
  /\ ppc = [t \in PThreads |-> "idle"]
  /\ p_loc = [t \in PThreads |-> 0]
  /\ created = {}
  /\ mm_alive = TRUE
  /\ rcu_cb = 0
  /\ p_uaf = FALSE
  /\ resv = NoResv
  /\ fw = NoWait
  /\ wa = NoAny
  /\ cp = NoCreate
  /\ ew = LiveProcess

\* the lowest buffer of B that is not registered (B has one)
FirstFree(B) ==
  CHOOSE b \in B : bo_mn[b] = NULL /\ \A x \in B : bo_mn[x] = NULL => b <= x

\* the <<addr, size>> pairs whose range matches no node of the tree, so that
\* register has to kmalloc a node
FreshRanges(tree) ==
  {r \in Addrs \X Sizes :
     interval_tree_iter_first(tree, r[1], RangeEnd(r[1], r[2])) = NoNode}

\* the calls of amdgpu_mn_register for the buffers B of kinds K: a successful
\* one with any address and size, and the failing ones (interrupted mmap_sem,
\* kzalloc of the context, __mmu_notifier_register, kmalloc of the node).  A
\* failing call changes nothing that depends on its buffer or address, one
\* call stands for all of them.
Register(B, K) ==
  \E kfd_bo \in K :
     \/ \E bo \in B, addr \in Addrs, size \in Sizes :
           amdgpu_mn_register(bo, addr, size, kfd_bo, "none", TRUE)
     \/ /\ \E b \in B : bo_mn[b] = NULL
        /\ \E fault \in GetFaults \ {"none"} :
              amdgpu_mn_register(FirstFree(B), 0, 1, kfd_bo, fault, TRUE)
     \/ /\ \E b \in B : bo_mn[b] = NULL
        /\ LET F == FreshRanges(objects[IF kfd_bo THEN "HSA" ELSE "GFX"])
           IN /\ F # {}
              /\ LET r == CHOOSE x \in F : TRUE
                 IN amdgpu_mn_register(FirstFree(B), r[1], r[2], kfd_bo,
                                       "none", FALSE)

Unregister(B) == \E bo \in B : amdgpu_mn_unregister(bo)

\* register and unregister calls, one after the other, on the graphics
\* context of the address space
RegisterGfx == Register(BOs, {FALSE})
UnregisterGfx == Unregister(BOs)

Next == RegisterGfx \/ UnregisterGfx

Spec == Init /\ [][Next]_vars

\* ---------------------------------------------- notifier callbacks as well
\* the ranges [start, end) the notifier delivers: end is above start
Ranges == {r \in Addrs \X Addrs : r[1] < r[2]}

RegisterAny == Register(WalkBOs, BOOLEAN)
UnregisterAny == Unregister(WalkBOs)

\* the fence wait of every buffer that is waited for may return any value
RangeStartGfx ==
  \E rg \in Ranges :
     \E r \in [{bo \in Registered("GFX") :
                  amdgpu_ttm_tt_affect_userptr(bo, rg[1],
                                               InclusiveEnd(rg[2]))}
               -> WaitResults] :
        amdgpu_mn_invalidate_range_start_gfx(rg[1], rg[2], r)

RangeStartHsa ==
  \E rg \in Ranges : amdgpu_mn_invalidate_range_start_hsa(rg[1], rg[2])

RangeEndAny == \E c \in Types : amdgpu_mn_invalidate_range_end(c)

NextWalk ==
  RegisterAny \/ UnregisterAny \/ RangeStartGfx \/ RangeStartHsa \/ RangeEndAny

\* calls of register, unregister and the notifier callbacks of both contexts,
\* one after the other
SpecWalk == Init /\ [][NextWalk]_vars

\* ------------------------------------------------------------- the threads
\* The calls statement by statement, for two threads that deliver notifier
\* callbacks and one that registers and unregisters the buffers of WalkBOs
\* (each at address 0 with size 1; the locking does not depend on the range).

\* rmn->lock, a rw_semaphore: a reader gets it when no writer holds it or is
\* queued for it, a writer when nobody holds it
CanRead(c) == rw_writer[c] = NULL /\ rw_waiting[c] = {}
CanWrite(c) == rw_writer[c] = NULL /\ rw_readers[c] = 0

\* the threads inside a range-start callback
InStart == {t \in Walkers : pc[t] \in {"rl_inc", "rl_down", "rl_unlock", "walk"}}

\* the address space has come to its end: its contexts have been released and
\* not all of them are destroyed yet
Dying == work # {} \/ d_ctx # NULL

\* line 148 of amdgpu_mn_read_lock, entered from a range-start callback of
\* context c: mutex_lock(&rmn->read_lock). The notifier core delivers no new
\* range-start once the release of the contexts has been delivered.
RL_Mutex(t, c) ==
  /\ pc[t] = "idle"
  /\ c \in mn_hash
  /\ ~Dying
  /\ pending["GFX"] + pending["HSA"] + Cardinality(InStart) < MaxDepth
  /\ read_lock[c] = NULL
  /\ read_lock' = [read_lock EXCEPT ![c] = t]
  /\ t_ctx' = [t_ctx EXCEPT ![t] = c]
  /\ t_queued' = [t_queued EXCEPT ![t] = rw_waiting[c] # {}]
  /\ pc' = [pc EXCEPT ![t] = "rl_inc"]
  /\ UNCHANGED <<mn_hash, objects, bo_mn, userptr, bo_size, recursion,
                 rw_readers, pending, last, rw_writer, rw_waiting, mn_lock, wl,
                 dvars, ovars>>

\* line 149: atomic_inc_return(&rmn->recursion) == 1
RL_Inc(t) ==
  /\ pc[t] = "rl_inc"
  /\ recursion' = [recursion EXCEPT ![t_ctx[t]] = @ + 1]
  /\ pc' = [pc EXCEPT ![t] = IF TakesSem(recursion[t_ctx[t]] + 1)
                             THEN "rl_down" ELSE "rl_unlock"]
  /\ UNCHANGED <<mn_hash, objects, bo_mn, userptr, bo_size, rw_readers,
                 pending, last, rw_writer, rw_waiting, read_lock, mn_lock,
                 t_ctx, t_queued, wl,
                 dvars, ovars>>

\* line 150: down_read_non_owner(&rmn->lock)
RL_Down(t) ==
  /\ pc[t] = "rl_down"
  /\ CanRead(t_ctx[t])
  /\ rw_readers' = [rw_readers EXCEPT ![t_ctx[t]] = @ + 1]
  /\ pc' = [pc EXCEPT ![t] = "rl_unlock"]
  /\ UNCHANGED <<mn_hash, objects, bo_mn, userptr, bo_size, recursion,
                 pending, last, rw_writer, rw_waiting, read_lock, mn_lock,
                 t_ctx, t_queued, wl,
                 dvars, ovars>>

\* line 151: mutex_unlock(&rmn->read_lock)
RL_Unlock(t) ==
  /\ pc[t] = "rl_unlock"
  /\ read_lock' = [read_lock EXCEPT ![t_ctx[t]] = NULL]
  /\ pc' = [pc EXCEPT ![t] = "walk"]
  /\ UNCHANGED <<mn_hash, objects, bo_mn, userptr, bo_size, recursion,
                 rw_readers, pending, last, rw_writer, rw_waiting, mn_lock,
                 t_ctx, t_queued, wl,
                 dvars, ovars>>

\* lines 263-272 and 319-335: the walk over the tree, and the return of the
\* range-start callback; its range-end is to come
Walk(t) ==
  /\ pc[t] = "walk"
  /\ pending' = [pending EXCEPT ![t_ctx[t]] = @ + 1]
  /\ pc' = [pc EXCEPT ![t] = "idle"]
  /\ t_ctx' = [t_ctx EXCEPT ![t] = "GFX"]
  /\ t_queued' = [t_queued EXCEPT ![t] = FALSE]
  /\ UNCHANGED <<mn_hash, objects, bo_mn, userptr, bo_size, recursion,
                 rw_readers, last, rw_writer, rw_waiting, read_lock, mn_lock,
                 wl,
                 dvars, ovars>>

\* amdgpu_mn_invalidate_range_end, line 291, and line 163 of
\* amdgpu_mn_read_unlock: atomic_dec_return(&rmn->recursion) == 0
RE_Dec(t, c) ==
  /\ pc[t] = "idle"
  /\ pending[c] > 0
  /\ pending' = [pending EXCEPT ![c] = @ - 1]
  /\ recursion' = [recursion EXCEPT ![c] = @ - 1]
  /\ IF DropsSem(recursion[c] - 1)
     THEN /\ pc' = [pc EXCEPT ![t] = "ru_up"]
          /\ t_ctx' = [t_ctx EXCEPT ![t] = c]
     ELSE UNCHANGED <<pc, t_ctx>>
  /\ UNCHANGED <<mn_hash, objects, bo_mn, userptr, bo_size, rw_readers, last,
                 rw_writer, rw_waiting, read_lock, mn_lock, t_queued, wl,
                 dvars, ovars>>

\* line 164: up_read_non_owner(&rmn->lock)
RE_Up(t) ==
  /\ pc[t] = "ru_up"
  /\ rw_readers' = [rw_readers EXCEPT ![t_ctx[t]] = @ - 1]
  /\ pc' = [pc EXCEPT ![t] = "idle"]
  /\ t_ctx' = [t_ctx EXCEPT ![t] = "GFX"]
  /\ UNCHANGED <<mn_hash, objects, bo_mn, userptr, bo_size, recursion,
                 pending, last, rw_writer, rw_waiting, read_lock, mn_lock,
                 t_queued, wl,
                 dvars, ovars>>

\* amdgpu_mn_register, lines 478-491: the call of amdgpu_mn_get, made under
\* adev->mn_lock; an error of it is returned.  The caller is a thread of the
\* address space (current->mm), which is therefore not at its end.
W_Register(bo, addr, size, kfd_bo, fault) ==
  LET type == IF kfd_bo THEN "HSA" ELSE "GFX"
      g == amdgpu_mn_get(mn_hash, type, fault)
  IN /\ pc[Writer] = "idle"
     /\ bo_mn[bo] = NULL
     /\ ~Dying
     /\ mn_lock = NULL
     /\ mn_hash' = g.hash
     /\ IF g.ret = "ok"
        THEN /\ wl' = [op |-> "register", bo |-> bo, ctx |-> type,
                       addr |-> addr, end |-> RangeEnd(addr, size),
                       bos |-> {}, node |-> FALSE]
             /\ userptr' = [userptr EXCEPT ![bo] = addr]
             /\ bo_size' = [bo_size EXCEPT ![bo] = size]
             /\ pc' = [pc EXCEPT ![Writer] = "w_down"]
        ELSE UNCHANGED <<wl, userptr, bo_size, pc>>
     /\ UNCHANGED <<objects, bo_mn, recursion, rw_readers, pending, last,
                    rw_writer, rw_waiting, read_lock, mn_lock, t_ctx, t_queued,
                 dvars, ovars>>

\* amdgpu_mn_unregister, line 540: mutex_lock(&adev->mn_lock)
W_Unregister(bo) ==
  /\ pc[Writer] = "idle"
  /\ mn_lock = NULL
  /\ mn_lock' = Writer
  /\ wl' = [NoCall EXCEPT !.op = "unregister", !.bo = bo]
  /\ pc' = [pc EXCEPT ![Writer] = "un_test"]
  /\ UNCHANGED <<mn_hash, objects, bo_mn, userptr, bo_size, recursion,
                 rw_readers, pending, last, rw_writer, rw_waiting, read_lock,
                 t_ctx, t_queued, dvars, ovars>>

\* lines 542-543: rmn = bo->mn and the test for NULL
Un_Test ==
  /\ pc[Writer] = "un_test"
  /\ IF bo_mn[wl.bo] = NULL
     THEN /\ pc' = [pc EXCEPT ![Writer] = "un_ret"]
          /\ UNCHANGED wl
     ELSE /\ wl' = [wl EXCEPT !.ctx = bo_mn[wl.bo]]
          /\ pc' = [pc EXCEPT ![Writer] = "w_down"]
  /\ UNCHANGED <<mn_hash, objects, bo_mn, userptr, bo_size, recursion,
                 rw_readers, pending, last, rw_writer, rw_waiting, read_lock,
                 mn_lock, t_ctx, t_queued, dvars, ovars>>

\* (variant: the early return keeps the mutex)
EarlyUnlock_keep(holder) == holder

\* line 544: mutex_unlock(&adev->mn_lock) on the early return
EarlyUnlock(holder) == NULL

\* lines 544-545: the early return of a buffer that is not registered
Un_Ret ==
  /\ pc[Writer] = "un_ret"
  /\ mn_lock' = EarlyUnlock(mn_lock)
  /\ wl' = NoCall
  /\ pc' = [pc EXCEPT ![Writer] = "idle"]
  /\ UNCHANGED <<mn_hash, objects, bo_mn, userptr, bo_size, recursion,
                 rw_readers, pending, last, rw_writer, rw_waiting, read_lock,
                 t_ctx, t_queued, dvars, ovars>>

\* (variant: the callback destroys the context itself)
amdgpu_mn_release_sync(c, hash, w) == [mn_hash |-> hash \ {c}, work |-> w]

\* amdgpu_mn_release, lines 112-118: INIT_WORK and schedule_work of
\* amdgpu_mn_destroy; nothing else is touched
amdgpu_mn_release(c, hash, w) == [mn_hash |-> hash, work |-> w \cup {c}]

\* the release callbacks of all the contexts of the address space
RECURSIVE ReleaseAll(_, _, _)
ReleaseAll(C, hash, w) ==
  IF C = {} THEN [mn_hash |-> hash, work |-> w]
  ELSE LET c == CHOOSE x \in C : TRUE
           r == amdgpu_mn_release(c, hash, w)
       IN ReleaseAll(C \ {c}, r.mn_hash, r.work)

\* the end of the address space: the notifier core calls the release callback
\* of every context of it.  No thread of the address space is left, so no
\* register call is running; no range-start callback is between its entry and
\* its return, callbacks that wait for their range-end may remain.
Release ==
  LET r == ReleaseAll(mn_hash, mn_hash, work)
  IN /\ mn_hash # {}
     /\ ~Dying
     /\ InStart = {}
     /\ wl.op # "register"
     /\ mn_hash' = r.mn_hash
     /\ work' = r.work
     /\ UNCHANGED <<objects, bo_mn, userptr, bo_size, recursion, rw_readers,
                    pending, last, rw_writer, rw_waiting, read_lock, mn_lock,
                    pc, t_ctx, t_queued, wl, d_ctx, ovars>>

\* the worker takes the work item of context c: amdgpu_mn_destroy, line 77
D_Start(c) ==
  /\ pc[Worker] = "idle"
  /\ c \in work
  /\ work' = work \ {c}
  /\ d_ctx' = c
  /\ pc' = [pc EXCEPT ![Worker] = "d_lock"]
  /\ UNCHANGED <<mn_hash, objects, bo_mn, userptr, bo_size, recursion,
                 rw_readers, pending, last, rw_writer, rw_waiting, read_lock,
                 mn_lock, t_ctx, t_queued, wl, ovars>>

\* line 85: mutex_lock(&adev->mn_lock)
D_Lock ==
  /\ pc[Worker] = "d_lock"
  /\ mn_lock = NULL
  /\ mn_lock' = Worker
  /\ pc' = [pc EXCEPT ![Worker] = "d_down"]
  /\ UNCHANGED <<mn_hash, objects, bo_mn, userptr, bo_size, recursion,
                 rw_readers, pending, last, rw_writer, rw_waiting, read_lock,
                 t_ctx, t_queued, wl, dvars, ovars>>

\* line 86: down_write(&rmn->lock), taken or queued for
D_Down ==
  /\ pc[Worker] = "d_down"
  /\ IF CanWrite(d_ctx)
     THEN /\ rw_writer' = [rw_writer EXCEPT ![d_ctx] = Worker]
          /\ pc' = [pc EXCEPT ![Worker] = "de_del"]
          /\ UNCHANGED rw_waiting
     ELSE /\ rw_waiting' = [rw_waiting EXCEPT ![d_ctx] = @ \cup {Worker}]
          /\ pc' = [pc EXCEPT ![Worker] = "d_wait"]
          /\ UNCHANGED rw_writer
  /\ UNCHANGED <<mn_hash, objects, bo_mn, userptr, bo_size, recursion,
                 rw_readers, pending, last, read_lock, mn_lock, t_ctx,
                 t_queued, wl, dvars, ovars>>

\* the queued worker gets the semaphore
D_Wait ==
  /\ pc[Worker] = "d_wait"
  /\ CanWrite(d_ctx)
  /\ rw_writer' = [rw_writer EXCEPT ![d_ctx] = Worker]
  /\ rw_waiting' = [rw_waiting EXCEPT ![d_ctx] = @ \ {Worker}]
  /\ pc' = [pc EXCEPT ![Worker] = "de_del"]
  /\ UNCHANGED <<mn_hash, objects, bo_mn, userptr, bo_size, recursion,
                 rw_readers, pending, last, read_lock, mn_lock, t_ctx,
                 t_queued, wl, dvars, ovars>>

\* where the call goes on once it holds the semaphore
AfterDown == IF wl.op = "register" THEN "reg_loop" ELSE "un_del"

\* (variant: the call goes on without the semaphore)
W_Down_nolock ==
  /\ pc[Writer] = "w_down"
  /\ pc' = [pc EXCEPT ![Writer] = AfterDown]
  /\ UNCHANGED <<mn_hash, objects, bo_mn, userptr, bo_size, recursion,
                 rw_readers, pending, last, rw_writer, rw_waiting, read_lock,
                 mn_lock, t_ctx, t_queued, wl, dvars, ovars>>

\* down_write(&rmn->lock), lines 493 and 548: the semaphore is taken, or the
\* thread queues for it
W_Down ==
  /\ pc[Writer] = "w_down"
  /\ IF CanWrite(wl.ctx)
     THEN /\ rw_writer' = [rw_writer EXCEPT ![wl.ctx] = Writer]
          /\ pc' = [pc EXCEPT ![Writer] = AfterDown]
          /\ UNCHANGED rw_waiting
     ELSE /\ rw_waiting' = [rw_waiting EXCEPT ![wl.ctx] = @ \cup {Writer}]
          /\ pc' = [pc EXCEPT ![Writer] = "w_wait"]
          /\ UNCHANGED rw_writer
  /\ UNCHANGED <<mn_hash, objects, bo_mn, userptr, bo_size, recursion,
                 rw_readers, pending, last, read_lock, mn_lock, t_ctx,
                 t_queued, wl,
                 dvars, ovars>>

\* the queued writer gets the semaphore
W_Wait ==
  /\ pc[Writer] = "w_wait"
  /\ CanWrite(wl.ctx)
  /\ rw_writer' = [rw_writer EXCEPT ![wl.ctx] = Writer]
  /\ rw_waiting' = [rw_waiting EXCEPT ![wl.ctx] = @ \ {Writer}]
  /\ pc' = [pc EXCEPT ![Writer] = AfterDown]
  /\ UNCHANGED <<mn_hash, objects, bo_mn, userptr, bo_size, recursion,
                 rw_readers, pending, last, read_lock, mn_lock, t_ctx,
                 t_queued, wl,
                 dvars, ovars>>

\* amdgpu_mn_register, lines 495-502: the overlapping nodes leave the tree
Reg_Loop ==
  LET m == MergeLoop(objects[wl.ctx], wl.addr, wl.end, {}, FALSE)
  IN /\ pc[Writer] = "reg_loop"
     /\ objects' = [objects EXCEPT ![wl.ctx] = m.tree]
     /\ wl' = [wl EXCEPT !.addr = m.addr, !.end = m.end, !.bos = m.bos,
                         !.node = m.node]
     /\ pc' = [pc EXCEPT ![Writer] = "reg_alloc"]
     /\ UNCHANGED <<mn_hash, bo_mn, userptr, bo_size, recursion, rw_readers,
                    pending, last, rw_writer, rw_waiting, read_lock, mn_lock,
                    t_ctx, t_queued,
                 dvars, ovars>>

\* (variant: bo->mn = rmn is written before kmalloc is tested)
Reg_Alloc_early(alloc) ==
  /\ pc[Writer] = "reg_alloc"
  /\ bo_mn' = [bo_mn EXCEPT ![wl.bo] = wl.ctx]
  /\ IF ~wl.node /\ ~alloc
     THEN /\ rw_writer' = [rw_writer EXCEPT ![wl.ctx] = NULL]
          /\ userptr' = [userptr EXCEPT ![wl.bo] = 0]
          /\ bo_size' = [bo_size EXCEPT ![wl.bo] = 1]
          /\ wl' = NoCall
          /\ pc' = [pc EXCEPT ![Writer] = "idle"]
          /\ last' = Ret("register", "ENOMEM")
     ELSE /\ pc' = [pc EXCEPT ![Writer] = "reg_insert"]
          /\ UNCHANGED <<rw_writer, userptr, bo_size, wl, last>>
  /\ UNCHANGED <<mn_hash, objects, recursion, rw_readers, pending,
                 rw_waiting, read_lock, mn_lock, t_ctx, t_queued,
                 dvars, ovars>>

\* lines 504-512: kmalloc of the node when none is reused (-ENOMEM and
\* up_write when it fails), then bo->mn = rmn
Reg_Alloc(alloc) ==
  /\ pc[Writer] = "reg_alloc"
  /\ IF ~wl.node /\ ~alloc
     THEN /\ rw_writer' = [rw_writer EXCEPT ![wl.ctx] = NULL]
          /\ userptr' = [userptr EXCEPT ![wl.bo] = 0]
          /\ bo_size' = [bo_size EXCEPT ![wl.bo] = 1]
          /\ wl' = NoCall
          /\ pc' = [pc EXCEPT ![Writer] = "idle"]
          /\ last' = Ret("register", "ENOMEM")
          /\ UNCHANGED bo_mn
     ELSE /\ bo_mn' = [bo_mn EXCEPT ![wl.bo] = wl.ctx]
          /\ pc' = [pc EXCEPT ![Writer] = "reg_insert"]
          /\ UNCHANGED <<rw_writer, userptr, bo_size, wl, last>>
  /\ UNCHANGED <<mn_hash, objects, recursion, rw_readers, pending,
                 rw_waiting, read_lock, mn_lock, t_ctx, t_queued,
                 dvars, ovars>>

\* lines 514-524: the node is filled and inserted, up_write
Reg_Insert ==
  /\ pc[Writer] = "reg_insert"
  /\ objects' = [objects EXCEPT ![wl.ctx] =
                   InsertNode([tree |-> objects[wl.ctx], addr |-> wl.addr,
                               end |-> wl.end, bos |-> wl.bos], wl.bo)]
  /\ rw_writer' = [rw_writer EXCEPT ![wl.ctx] = NULL]
  /\ wl' = NoCall
  /\ pc' = [pc EXCEPT ![Writer] = "idle"]
  /\ UNCHANGED <<mn_hash, bo_mn, userptr, bo_size, recursion, rw_readers,
                 pending, last, rw_waiting, read_lock, mn_lock, t_ctx, t_queued,
                 dvars, ovars>>

\* amdgpu_mn_unregister, lines 551-554: bo->mn = NULL and list_del_init
Un_Del ==
  /\ pc[Writer] = "un_del"
  /\ bo_mn' = [bo_mn EXCEPT ![wl.bo] = NULL]
  /\ objects' = [objects EXCEPT ![wl.ctx] = list_del_init(@, wl.bo)]
  /\ pc' = [pc EXCEPT ![Writer] = "un_free"]
  /\ UNCHANGED <<mn_hash, userptr, bo_size, recursion, rw_readers, pending,
                 last, rw_writer, rw_waiting, read_lock, mn_lock, t_ctx,
                 t_queued, wl,
                 dvars, ovars>>

\* lines 556-564: the empty node is removed and freed, up_write and
\* mutex_unlock(&adev->mn_lock)
Un_Free ==
  /\ pc[Writer] = "un_free"
  /\ objects' = [objects EXCEPT ![wl.ctx] = RemoveEmptyNode(@)]
  /\ rw_writer' = [rw_writer EXCEPT ![wl.ctx] = NULL]
  /\ mn_lock' = NULL
  /\ userptr' = [userptr EXCEPT ![wl.bo] = 0]
  /\ bo_size' = [bo_size EXCEPT ![wl.bo] = 1]
  /\ wl' = NoCall
  /\ pc' = [pc EXCEPT ![Writer] = "idle"]
  /\ UNCHANGED <<mn_hash, bo_mn, recursion, rw_readers, pending, last,
                 rw_waiting, read_lock, t_ctx, t_queued,
                 dvars, ovars>>

\* amdgpu_mn_destroy, line 87: hash_del(&rmn->node)
De_Del ==
  /\ pc[Worker] = "de_del"
  /\ mn_hash' = mn_hash \ {d_ctx}
  /\ pc' = [pc EXCEPT ![Worker] = "de_node"]
  /\ UNCHANGED <<objects, bo_mn, userptr, bo_size, recursion, rw_readers,
                 pending, last, rw_writer, rw_waiting, read_lock, mn_lock,
                 t_ctx, t_queued, wl, dvars, ovars>>

\* lines 93-94, for a buffer of the node the outer loop is at: bo->mn = NULL
\* and list_del_init(&bo->mn_list)
De_Bo(n, bo) ==
  /\ pc[Worker] = "de_node"
  /\ n \in objects[d_ctx]
  /\ bo \in n.bos
  /\ bo_mn' = [bo_mn EXCEPT ![bo] = NULL]
  /\ objects' = [objects EXCEPT ![d_ctx] = list_del_init(@, bo)]
  /\ UNCHANGED <<mn_hash, userptr, bo_size, recursion, rw_readers, pending, last, rw_writer,
                 rw_waiting, read_lock, mn_lock, pc, t_ctx, t_queued, wl,
                 dvars, ovars>>

\* (variant: the node is freed with buffers still on its list)
ListDone_any(n) == TRUE

\* the list_for_each_entry_safe loop of lines 92-95 is through
ListDone(n) == n.bos = {}

\* line 96: kfree(node), after the loop over its list
De_Kfree(n) ==
  /\ pc[Worker] = "de_node"
  /\ n \in objects[d_ctx]
  /\ ListDone(n)
  /\ objects' = [objects EXCEPT ![d_ctx] = @ \ {n}]
  /\ UNCHANGED <<mn_hash, bo_mn, userptr, bo_size, recursion, rw_readers,
                 pending, last, rw_writer, rw_waiting, read_lock, mn_lock, pc,
                 t_ctx, t_queued, wl, dvars, ovars>>

\* lines 98-99, when the loop over the nodes is through: up_write and
\* mutex_unlock(&adev->mn_lock)
De_Unlock ==
  /\ pc[Worker] = "de_node"
  /\ objects[d_ctx] = {}
  /\ rw_writer' = [rw_writer EXCEPT ![d_ctx] = NULL]
  /\ mn_lock' = NULL
  /\ pc' = [pc EXCEPT ![Worker] = "de_free"]
  /\ UNCHANGED <<mn_hash, objects, bo_mn, userptr, bo_size, recursion,
                 rw_readers, pending, last, rw_waiting, read_lock, t_ctx,
                 t_queued, wl, dvars, ovars>>

\* lines 100-101: mmu_notifier_unregister_no_release and kfree(rmn)
De_Free ==
  /\ pc[Worker] = "de_free"
  /\ d_ctx' = NULL
  /\ pc' = [pc EXCEPT ![Worker] = "idle"]
  /\ UNCHANGED <<mn_hash, objects, bo_mn, userptr, bo_size, recursion,
                 rw_readers, pending, last, rw_writer, rw_waiting, read_lock,
                 mn_lock, t_ctx, t_queued, wl, work, ovars>>

RangeStartEnter == \E t \in Walkers, c \in Types : RL_Mutex(t, c)
RangeStartInc == \E t \in Walkers : RL_Inc(t)
RangeStartDown == \E t \in Walkers : RL_Down(t)
RangeStartUnlock == \E t \in Walkers : RL_Unlock(t)
RangeStartWalk == \E t \in Walkers : Walk(t)
RangeEndDec == \E t \in Walkers, c \in Types : RE_Dec(t, c)
RangeEndUp == \E t \in Walkers : RE_Up(t)
RegisterCall ==
  \E bo \in WalkBOs, kfd_bo \in BOOLEAN, fault \in GetFaults :
     W_Register(bo, 0, 1, kfd_bo, fault)
UnregisterCall == \E bo \in WalkBOs : W_Unregister(bo)
DestroyStart == \E c \in Types : D_Start(c)
DestroyBo == \E c \in Types : \E n \in objects[c], bo \in BOs : De_Bo(n, bo)
DestroyKfree == \E c \in Types : \E n \in objects[c] : De_Kfree(n)
RegisterAlloc == \E alloc \in BOOLEAN : Reg_Alloc(alloc)

NextLock ==
  \/ RangeStartEnter \/ RangeStartInc \/ RangeStartDown \/ RangeStartUnlock
  \/ RangeStartWalk \/ RangeEndDec \/ RangeEndUp
  \/ RegisterCall \/ UnregisterCall \/ Un_Test \/ Un_Ret \/ W_Down \/ W_Wait
  \/ Reg_Loop \/ RegisterAlloc \/ Reg_Insert \/ Un_Del \/ Un_Free
  \/ Release \/ DestroyStart \/ D_Lock \/ D_Down \/ D_Wait
  \/ De_Del \/ DestroyBo \/ DestroyKfree \/ De_Unlock \/ De_Free

\* the threads interleaved statement by statement
SpecLock == Init /\ [][NextLock]_vars

\* ------------------------------------------------- the registry of contexts
\* amdgpu_mn_get statement by statement, called by two threads for the
\* address spaces MMs and both types.

\* enum amdgpu_mn_type as the index of amdgpu_mn_ops, lines 367-384
TypeNum(type) == IF type = "GFX" THEN 0 ELSE 1

\* AMDGPU_MN_KEY, line 389
AMDGPU_MN_KEY(mm, type) == mm + TypeNum(type)

\* the entries the loop of lines 420-422 stops at
Matches(r, key) ==
  {c \in Ctxs : r[c] > 0 /\ AMDGPU_MN_KEY(c[1], c[2]) = key}

\* (variant: the lookup finds nothing)
hash_lookup_miss(r, key) == NULL

\* lines 417-422, hash_for_each_possible with the test of the key: an entry
\* with the key, NULL when there is none
hash_lookup(r, key) ==
  IF Matches(r, key) = {} THEN NULL ELSE CHOOSE c \in Matches(r, key) : TRUE

RECURSIVE SumOver(_, _)
SumOver(r, C) ==
  IF C = {} THEN 0
  ELSE LET c == CHOOSE x \in C : TRUE IN r[c] + SumOver(r, C \ {c})

\* the number of contexts that are allocated: those in the registry and
\* those in the hands of a thread between kzalloc and hash_add or kfree
Allocated ==
  SumOver(reg, Ctxs) +
  Cardinality({t \in Getters : gl[t].pc \in {"g_notif", "g_free"}})

\* the call amdgpu_mn_get(adev, type) of a thread with current->mm = mm,
\* line 399
G_Call(t, mm, type) ==
  /\ gl[t].pc = "idle"
  /\ gl' = [gl EXCEPT ![t] = [NoGet EXCEPT !.pc = "g_lock", !.mm = mm,
                                          !.type = type]]
  /\ UNCHANGED <<mn_hash, objects, bo_mn, userptr, bo_size, recursion,
                 rw_readers, pending, last, rw_writer, rw_waiting, read_lock,
                 mn_lock, pc, t_ctx, t_queued, wl, dvars, notgvars,
                 reg, mmap_sem>>

\* line 410: mutex_lock(&adev->mn_lock); snap keeps the registry as the call
\* found it
G_Lock(t) ==
  /\ gl[t].pc = "g_lock"
  /\ mn_lock = NULL
  /\ mn_lock' = t
  /\ gl' = [gl EXCEPT ![t].pc = "g_mmap", ![t].snap = reg]
  /\ UNCHANGED <<mn_hash, objects, bo_mn, userptr, bo_size, recursion,
                 rw_readers, pending, last, rw_writer, rw_waiting, read_lock,
                 pc, t_ctx, t_queued, wl, dvars, notgvars,
                 reg, mmap_sem>>

\* line 414: down_write_killable(&mm->mmap_sem); killed tells whether a
\* fatal signal ends the wait
G_Mmap(t, killed) ==
  /\ gl[t].pc = "g_mmap"
  /\ IF killed
     THEN /\ gl' = [gl EXCEPT ![t].pc = "g_intr", ![t].ret = "EINTR"]
          /\ UNCHANGED mmap_sem
     ELSE /\ mmap_sem[gl[t].mm] = NULL
          /\ mmap_sem' = [mmap_sem EXCEPT ![gl[t].mm] = t]
          /\ gl' = [gl EXCEPT ![t].pc = "g_find"]
  /\ UNCHANGED <<mn_hash, objects, bo_mn, userptr, bo_size, recursion,
                 rw_readers, pending, last, rw_writer, rw_waiting, read_lock,
                 mn_lock, pc, t_ctx, t_queued, wl, dvars, notgvars,
                 reg>>

\* (variant: the interrupted call keeps the mutex)
IntrUnlock_keep(holder) == holder

\* line 415: mutex_unlock(&adev->mn_lock) of the interrupted call
IntrUnlock(holder) == NULL

\* lines 415-416: the interrupted call returns ERR_PTR(-EINTR)
G_Intr(t) ==
  /\ gl[t].pc = "g_intr"
  /\ mn_lock' = IntrUnlock(mn_lock)
  /\ gl' = [gl EXCEPT ![t] = NoGet]
  /\ UNCHANGED <<mn_hash, objects, bo_mn, userptr, bo_size, recursion,
                 rw_readers, pending, last, rw_writer, rw_waiting, read_lock,
                 pc, t_ctx, t_queued, wl, dvars, notgvars,
                 reg, mmap_sem>>

\* lines 420-426: the lookup; the context found is returned
G_Find(t) ==
  LET c == hash_lookup(reg, AMDGPU_MN_KEY(gl[t].mm, gl[t].type))
  IN /\ gl[t].pc = "g_find"
     /\ gl' = IF c # NULL
              THEN [gl EXCEPT ![t].pc = "g_rel", ![t].rmn = c,
                              ![t].ret = "ok"]
              ELSE [gl EXCEPT ![t].pc = "g_alloc"]
     /\ UNCHANGED <<mn_hash, objects, bo_mn, userptr, bo_size, recursion,
                    rw_readers, pending, last, rw_writer, rw_waiting,
                    read_lock, mn_lock, pc, t_ctx, t_queued, wl, dvars, notgvars,
                 reg,
                    mmap_sem>>

\* lines 428-445: kzalloc of the context (ok tells whether it succeeds) and
\* the initialisation of its fields
G_Alloc(t, ok) ==
  /\ gl[t].pc = "g_alloc"
  /\ IF ok
     THEN /\ Allocated < MaxCtx
          /\ gl' = [gl EXCEPT ![t].pc = "g_notif",
                              ![t].rmn = <<gl[t].mm, gl[t].type>>]
     ELSE gl' = [gl EXCEPT ![t].pc = "g_rel", ![t].ret = "ENOMEM"]
  /\ UNCHANGED <<mn_hash, objects, bo_mn, userptr, bo_size, recursion,
                 rw_readers, pending, last, rw_writer, rw_waiting, read_lock,
                 mn_lock, pc, t_ctx, t_queued, wl, dvars, notgvars,
                 reg, mmap_sem>>

\* lines 447-451: __mmu_notifier_register (ok tells whether it succeeds) and
\* hash_add
G_Notif(t, ok) ==
  /\ gl[t].pc = "g_notif"
  /\ IF ok
     THEN /\ reg' = [reg EXCEPT ![gl[t].rmn] = @ + 1]
          /\ gl' = [gl EXCEPT ![t].pc = "g_rel", ![t].ret = "ok"]
     ELSE /\ gl' = [gl EXCEPT ![t].pc = "g_free", ![t].ret = "EREG"]
          /\ UNCHANGED reg
  /\ UNCHANGED <<mn_hash, objects, bo_mn, userptr, bo_size, recursion,
                 rw_readers, pending, last, rw_writer, rw_waiting, read_lock,
                 mn_lock, pc, t_ctx, t_queued, wl, dvars, notgvars,
                 mmap_sem>>

\* release_locks, lines 453-457: up_write, mutex_unlock, return rmn
G_Rel(t) ==
  /\ gl[t].pc = "g_rel"
  /\ mmap_sem' = [mmap_sem EXCEPT ![gl[t].mm] = NULL]
  /\ mn_lock' = NULL
  /\ gl' = [gl EXCEPT ![t] = NoGet]
  /\ UNCHANGED <<mn_hash, objects, bo_mn, userptr, bo_size, recursion,
                 rw_readers, pending, last, rw_writer, rw_waiting, read_lock,
                 pc, t_ctx, t_queued, wl, dvars, notgvars,
                 reg>>

\* free_rmn, lines 459-464: up_write, mutex_unlock, kfree(rmn), return
\* ERR_PTR(r)
G_Free(t) ==
  /\ gl[t].pc = "g_free"
  /\ mmap_sem' = [mmap_sem EXCEPT ![gl[t].mm] = NULL]
  /\ mn_lock' = NULL
  /\ gl' = [gl EXCEPT ![t] = NoGet]
  /\ UNCHANGED <<mn_hash, objects, bo_mn, userptr, bo_size, recursion,
                 rw_readers, pending, last, rw_writer, rw_waiting, read_lock,
                 pc, t_ctx, t_queued, wl, dvars, notgvars,
                 reg>>

\* amdgpu_mn_destroy of a context c, lines 85-101, as far as the registry
\* goes: hash_del under adev->mn_lock, and the context is freed
G_Destroy(c) ==
  /\ reg[c] > 0
  /\ mn_lock = NULL
  /\ reg' = [reg EXCEPT ![c] = @ - 1]
  /\ UNCHANGED <<mn_hash, objects, bo_mn, userptr, bo_size, recursion,
                 rw_readers, pending, last, rw_writer, rw_waiting, read_lock,
                 mn_lock, pc, t_ctx, t_queued, wl, dvars, notgvars,
                 mmap_sem, gl>>

GetCall == \E t \in Getters, mm \in MMs, type \in Types : G_Call(t, mm, type)
GetLock == \E t \in Getters : G_Lock(t)
GetMmap == \E t \in Getters, killed \in BOOLEAN : G_Mmap(t, killed)
GetIntr == \E t \in Getters : G_Intr(t)
GetFind == \E t \in Getters : G_Find(t)
GetAlloc == \E t \in Getters, ok \in BOOLEAN : G_Alloc(t, ok)
GetNotif == \E t \in Getters, ok \in BOOLEAN : G_Notif(t, ok)
GetRel == \E t \in Getters : G_Rel(t)
GetFree == \E t \in Getters : G_Free(t)
GetDestroy == \E c \in Ctxs : G_Destroy(c)

NextGet ==
  \/ GetCall \/ GetLock \/ GetMmap \/ GetIntr \/ GetFind \/ GetAlloc
  \/ GetNotif \/ GetRel \/ GetFree \/ GetDestroy

\* concurrent calls of amdgpu_mn_get, and contexts that get destroyed
SpecGet == Init /\ [][NextGet]_vars

\* -------------------------------------------- the handle table of a process
\* kfd_process_device_create_obj_handle and _remove_obj_handle (kfd_process.c)
\* on the table of one kfd_process_device.  Both assume that the process lock
\* is held, so the calls come one after the other.

MIN_IDR_ID == 1
MAX_IDR_ID == 0     \* 0 - for unlimited
ENOMEM == 12
ENOSPC == 28

\* the memory objects handles are made for, and the kfd_ipc_obj that comes
\* with the second of them (it is an imported one)
Mems == {1, 2}
IpcObjOf(mem) == IF mem = 2 THEN "ipc" ELSE NULL
\* the <<start, length>> handed to create_obj_handle
BoRanges == {<<0, 1>>, <<0, 2>>, <<1, 1>>}

\* (variant: the highest id that is free)
idr_get_free_high(idr, start, max) ==
  LET free == {h \in start..max : idr[h] = NoBo}
  IN IF free = {} THEN -ENOSPC
     ELSE CHOOSE h \in free : \A x \in free : x <= h

\* the search of idr_alloc, line 938: the lowest id of start..max that is not
\* in use, -ENOSPC when there is none
idr_get_free(idr, start, max) ==
  LET free == {h \in start..max : idr[h] = NoBo}
  IN IF free = {} THEN -ENOSPC
     ELSE CHOOSE h \in free : \A x \in free : h <= x

\* (variant: start is handed out whether or not it is in use)
idr_alloc_inuse(idr, start, end, nomem) ==
  IF nomem THEN -ENOMEM ELSE start

\* idr_alloc(&pdd->alloc_idr, buf_obj, MIN_IDR_ID, MAX_IDR_ID, GFP_NOWAIT),
\* lines 938-939: an id of [start, end) that is not in use, where end <= 0
\* stands for the largest id; -ENOMEM when the allocation of a layer fails
idr_alloc(idr, start, end, nomem) ==
  IF nomem THEN -ENOMEM
  ELSE idr_get_free(idr, start, IF end <= 0 THEN MaxHandle ELSE end - 1)

\* idr_find, line 955
idr_find(idr, handle) == IF handle \in DOMAIN idr THEN idr[handle] ELSE NoBo

\* kfd_process_device_find_bo, lines 949-956
kfd_process_device_find_bo(handle) ==
  IF handle < 0 THEN NoBo ELSE idr_find(alloc_idr, handle)

\* the kfd_bo whose memory was given back while its node is in the tree
Leaked == {b \in BagToSet(bo_interval_tree) : b.freed}
LeakCount ==
  BagCardinality([b \in Leaked |-> bo_interval_tree[b]])

\* kfd_process_device_create_obj_handle(pdd, mem, start, length, ipc_obj),
\* lines 910-947; kz tells whether kzalloc succeeds, nomem whether idr_alloc
\* runs out of memory.  The node is inserted into the interval tree before
\* idr_alloc; when idr_alloc fails the kfd_bo is freed, and its node is
\* still in the tree.
kfd_process_device_create_obj_handle(mem, start, length, ipc_obj, kz, nomem) ==
  LET buf_obj == [start |-> start, last |-> start + length - 1, mem |-> mem,
                  kfd_ipc_obj |-> ipc_obj, freed |-> FALSE]
      handle == idr_alloc(alloc_idr, MIN_IDR_ID, MAX_IDR_ID, nomem)
      gone == [start |-> start, last |-> start + length - 1, mem |-> 0,
               kfd_ipc_obj |-> NULL, freed |-> TRUE]
  IN IF ~kz
     THEN /\ h_last' = HRet("create", 0, -ENOMEM)
          /\ UNCHANGED <<alloc_idr, bo_interval_tree>>
     ELSE IF handle < 0
     THEN /\ LeakCount < MaxLeak
          /\ bo_interval_tree' = bo_interval_tree (+) SetToBag({gone})
          /\ h_last' = HRet("create", 0, handle)
          /\ UNCHANGED alloc_idr
     ELSE /\ bo_interval_tree' = bo_interval_tree (+) SetToBag({buf_obj})
          /\ alloc_idr' = [alloc_idr EXCEPT ![handle] = buf_obj]
          /\ h_last' = HRet("create", 0, handle)

\* the tree restricted to the kfd_bo of B
BagOf(tree, B) == [b \in BagToSet(tree) \cap B |-> tree[b]]

\* interval_tree_remove(&buf_obj->it, &p->bo_interval_tree), line 1018: the
\* node leaves the tree, the nodes of the other live kfd_bo stay.  Rebalancing
\* goes through the neighbours of the node; a neighbour whose kfd_bo was freed
\* is freed memory, and keep are the freed ones the tree still holds after.
interval_tree_remove(buf_obj, tree, keep) ==
  (BagOf(tree, {b \in BagToSet(tree) : ~b.freed}) (-) SetToBag({buf_obj}))
    (+) BagOf(tree, keep)

\* (variant: the reference of the kfd_ipc_obj is dropped whether or not the
\* record has one)
ipc_obj_put_always(buf_obj) == 1

\* lines 1013-1014: ipc_obj_put(&buf_obj->kfd_ipc_obj) when the record has a
\* kfd_ipc_obj; the number of calls
ipc_obj_put(buf_obj) == IF buf_obj.kfd_ipc_obj # NULL THEN 1 ELSE 0

\* kfd_process_device_remove_obj_handle(pdd, handle), lines 1000-1021, for a
\* negative handle or one that is in the table (the callers, lines 165 and
\* 350, pass a handle they got from the table)
kfd_process_device_remove_obj_handle(handle, keep) ==
  LET buf_obj == kfd_process_device_find_bo(handle)
  IN /\ handle < 0 \/ buf_obj # NoBo
     /\ IF handle < 0
        THEN /\ h_last' = HRet("remove", handle, 0)
             /\ UNCHANGED <<alloc_idr, bo_interval_tree>>
        ELSE /\ h_last' = [HRet("remove", handle, 0)
                             EXCEPT !.put = ipc_obj_put(buf_obj)]
             /\ alloc_idr' = [alloc_idr EXCEPT ![handle] = NoBo]
             /\ bo_interval_tree' =
                   interval_tree_remove(buf_obj, bo_interval_tree, keep)

\* the nodes the query [start, last] matches: the node of a live kfd_bo by
\* its range, the node of a freed one by what is read from the freed memory
\* (M are the freed ones that match)
IntervalHits(tree, start, lst, M) ==
  BagOf(tree, {b \in BagToSet(tree) :
                  IF b.freed THEN b \in M ELSE Overlaps(b, start, lst)})

\* kfd_process_find_bo_from_interval(p, start_addr, last_addr), lines
\* 971-995: NULL and a pr_err when interval_tree_iter_first finds no node or
\* interval_tree_iter_next finds a second one, else the kfd_bo of the node
kfd_process_find_bo_from_interval(start_addr, last_addr, M) ==
  LET hit == IntervalHits(bo_interval_tree, start_addr, last_addr, M)
      q == [HRet("find", 0, 0) EXCEPT !.start = start_addr,
                                      !.last = last_addr]
  IN /\ h_last' = IF BagCardinality(hit) # 1 THEN [q EXCEPT !.log = 1]
                  ELSE [q EXCEPT !.bo = CHOOSE b \in BagToSet(hit) : TRUE]
     /\ UNCHANGED <<alloc_idr, bo_interval_tree>>

\* kfd_process_device_translate_handle(pdd, handle), lines 961-969: the mem
\* of the kfd_bo that find_bo returns.  buf_obj is not tested: for a handle
\* that is not in the table buf_obj->mem is a read through a null pointer,
\* which faults (fault) or yields what is at that address (junk).
kfd_process_device_translate_handle(handle, fault, junk) ==
  LET buf_obj == kfd_process_device_find_bo(handle)
  IN /\ h_last' =
          IF buf_obj # NoBo THEN HRet("translate", handle, buf_obj.mem)
          ELSE IF fault
          THEN [HRet("translate", handle, 0) EXCEPT !.fault = TRUE]
          ELSE HRet("translate", handle, junk)
     /\ UNCHANGED <<alloc_idr, bo_interval_tree>>

\* the handles of the table
LiveHandles == {h \in DOMAIN alloc_idr : alloc_idr[h] # NoBo}

CreateHandle ==
  \E mem \in Mems, r \in BoRanges, kz \in BOOLEAN, nomem \in BOOLEAN :
     /\ kfd_process_device_create_obj_handle(mem, r[1], r[2], IpcObjOf(mem),
                                             kz, nomem)
     /\ UNCHANGED <<mn_hash, objects, bo_mn, userptr, bo_size, recursion,
                    rw_readers, pending, last, rw_writer, rw_waiting,
                    read_lock, mn_lock, pc, t_ctx, t_queued, wl, dvars, nothvars>>

RemoveHandle ==
  \E handle \in {-1} \cup LiveHandles, keep \in SUBSET Leaked :
     /\ kfd_process_device_remove_obj_handle(handle, keep)
     /\ UNCHANGED <<mn_hash, objects, bo_mn, userptr, bo_size, recursion,
                    rw_readers, pending, last, rw_writer, rw_waiting,
                    read_lock, mn_lock, pc, t_ctx, t_queued, wl, dvars, nothvars>>

\* translate is called with any handle: one of the table, one that was never
\* issued or was removed, a negative one
TranslateHandle ==
  \E handle \in -1..MaxHandle, fault \in BOOLEAN, junk \in {0} \cup Mems :
     /\ kfd_process_device_translate_handle(handle, fault, junk)
     /\ UNCHANGED <<mn_hash, objects, bo_mn, userptr, bo_size, recursion,
                    rw_readers, pending, last, rw_writer, rw_waiting,
                    read_lock, mn_lock, pc, t_ctx, t_queued, wl, dvars, nothvars>>

\* the ranges [start, last] that are looked up
FindRanges == {<<0, 0>>, <<0, 1>>, <<1, 1>>, <<2, 2>>}

FindBoFromInterval ==
  \E r \in FindRanges, M \in SUBSET Leaked :
     /\ kfd_process_find_bo_from_interval(r[1], r[2], M)
     /\ UNCHANGED <<mn_hash, objects, bo_mn, userptr, bo_size, recursion,
                    rw_readers, pending, last, rw_writer, rw_waiting,
                    read_lock, mn_lock, pc, t_ctx, t_queued, wl, dvars, nothvars>>

NextIdr ==
  CreateHandle \/ RemoveHandle \/ TranslateHandle \/ FindBoFromInterval

\* create and remove calls on one handle table, one after the other
SpecIdr == Init /\ [][NextIdr]_vars

\* ---------------------------------------- the eviction counter of a process
\* The per-device data of one process: kfd_create_process_device_data
\* (kfd_process.c) and the eviction and restore of the queues of the process
\* (the device queue manager), which count in qpd->evicted.

\* everything but the per-device data
notevars ==
  <<mn_hash, objects, bo_mn, userptr, bo_size, recursion, rw_readers, pending,
    last, rw_writer, rw_waiting, read_lock, mn_lock, pc, t_ctx, t_queued, wl,
    dvars, gvars, hvars, pvars, kvars>>

\* the failures of kfd_create_process_device_data: kzalloc, lines 707-709,
\* init_doorbell_bitmap, lines 724-727, create_process_vm, lines 730-734
PddFaults == {"none", "kzalloc", "doorbell", "vm"}

\* (variant: line 716 left out, the counter of a new pdd is what the
\* allocation held)
kfd_create_process_device_data_noinit(dev, fault) ==
  /\ pdds[dev] = NoPdd
  /\ pdds' = IF fault = "none"
             THEN [pdds EXCEPT ![dev] = [evicted |-> 1, state |-> "Evicted"]]
             ELSE pdds
  /\ e_last' = ERet("create", dev, fault = "none")

\* kfd_create_process_device_data(dev, p), lines 702-743: a pdd with
\* qpd.evicted = 0 (line 716) in p->per_device_data; when a step fails the
\* pdd is taken off the list again and freed
kfd_create_process_device_data(dev, fault) ==
  /\ pdds[dev] = NoPdd
  /\ pdds' = IF fault = "none"
             THEN [pdds EXCEPT ![dev] = [evicted |-> 0, state |-> "Active"]]
             ELSE pdds
  /\ e_last' = ERet("create", dev, fault = "none")

\* the devices the process has a pdd for
Pdds == {d \in Devs : pdds[d] # NoPdd}

\* evict(process): the counter of every pdd is incremented and its queues are
\* evicted; when the wait for the process-wide fence times out nothing is
\* changed and the eviction is tried again later
Evict ==
  \E timeout \in BOOLEAN :
  /\ UNCHANGED notevars
  /\ Pdds # {}
  /\ \A d \in Pdds : pdds[d].evicted < MaxEvict
  /\ pdds' = IF timeout THEN pdds
             ELSE [d \in Devs |->
                     IF d \in Pdds
                     THEN [evicted |-> pdds[d].evicted + 1,
                           state |-> "Evicted"]
                     ELSE pdds[d]]
  /\ e_last' = ERet("evict", 0, ~timeout)

\* the restore of one pdd: nothing for one that is active, else the counter
\* is decremented and the queues are active again when it is back at 0
restore_pdd(q) ==
  IF q.evicted = 0 THEN q
  ELSE [evicted |-> q.evicted - 1,
        state |-> IF q.evicted = 1 THEN "Active" ELSE "Evicted"]

\* restore(process): every pdd is restored; when the resources for it are
\* not to be had nothing is changed and the restore is scheduled again
Restore ==
  \E ok \in BOOLEAN :
  /\ UNCHANGED notevars
  /\ Pdds # {}
  /\ pdds' = IF ~ok THEN pdds
             ELSE [d \in Devs |->
                     IF d \in Pdds THEN restore_pdd(pdds[d]) ELSE pdds[d]]
  /\ e_last' = ERet("restore", 0, ok)

CreatePdd ==
  \E dev \in Devs, fault \in PddFaults :
     kfd_create_process_device_data(dev, fault) /\ UNCHANGED notevars

NextEvict == CreatePdd \/ Evict \/ Restore

\* the per-device data of a process is created, the process is evicted and
\* restored
SpecEvict == Init /\ [][NextEvict]_vars

\* ------------------------------------------------- the table of processes
\* kfd_create_process, the lookups that take a reference, kfd_unref_process,
\* kfd_process_notifier_release and the release work (kfd_process.c), one
\* statement at a time where another thread can see the difference.

\* everything but the table of processes
notpvars ==
  <<mn_hash, objects, bo_mn, userptr, bo_size, recursion, rw_readers, pending,
    last, rw_writer, rw_waiting, read_lock, mn_lock, pc, t_ctx, t_queued, wl,
    dvars, gvars, hvars, evars, kvars>>

\* the one mm of the creators, and the pasid kfd_pasid_alloc hands out for it
TheMm == 1
ThePasid == 1

\* (variant: the lookup misses)
find_process_by_mm_miss(table, ps, mm) == 0

\* find_process_by_mm(mm), lines 272-289: the hashed process with this mm
find_process_by_mm(table, ps, mm) ==
  IF \E i \in table : ps[i].mm = mm
  THEN CHOOSE i \in table : ps[i].mm = mm
  ELSE 0

\* the walk of kfd_lookup_process_by_pasid, lines 1036-1042
find_process_by_pasid(table, ps, pasid) ==
  IF \E i \in table : ps[i].pasid = pasid
  THEN CHOOSE i \in table : ps[i].pasid = pasid
  ELSE 0

\* (variant: the release work is queued whatever the count)
kfd_unref_process_always(ps, p) ==
  [ps EXCEPT ![p].ref = @ - 1, ![p].work = TRUE]

\* kfd_unref_process(p), lines 306-309, with kfd_process_ref_release, lines
\* 425-434: kref_put, and the one that takes the count to 0 queues
\* release_work
kfd_unref_process(ps, p) ==
  [ps EXCEPT ![p].ref = @ - 1, ![p].work = @ \/ ps[p].ref - 1 = 0]

\* (variant: synchronize_srcu waits for nobody)
synchronize_srcu_none(readers) == {}

\* synchronize_srcu(&kfd_processes_srcu), line 465: waits for the read
\* sections that are open when it is called
synchronize_srcu(readers) == readers

PStep(t, from, to) == ppc[t] = from /\ ppc' = [ppc EXCEPT ![t] = to]

\* kfd_create_process, line 243: mutex_lock(&kfd_processes_mutex); the caller
\* is a thread of the mm, which is alive while it runs
CLock ==
  \E t \in Creators :
     /\ PStep(t, "idle", "c_find")
     /\ mm_alive
     /\ kfd_processes_mutex = NULL
     /\ kfd_processes_mutex' = t
     /\ UNCHANGED <<kfd_processes_table, procs, srcu_readers, srcu_wait, p_loc,
                    created, rcu_cb, p_uaf, mm_alive>>
     /\ UNCHANGED notpvars

\* lines 246-249: process = find_process(thread, false), under the mutex
CFind ==
  \E t \in Creators :
     LET p == find_process_by_mm(kfd_processes_table, procs, TheMm) IN
     /\ PStep(t, "c_find", IF p # 0 THEN "c_unlock" ELSE "c_create")
     /\ p_loc' = [p_loc EXCEPT ![t] = p]
     /\ UNCHANGED <<kfd_processes_table, procs, kfd_processes_mutex,
                    srcu_readers, srcu_wait, created, rcu_cb, p_uaf, mm_alive>>
     /\ UNCHANGED notpvars

\* the steps of create_process that fail before the process is hashed:
\* kzalloc, lines 582-585, kfd_pasid_alloc, lines 593-595,
\* mmu_notifier_register, lines 604-606
CreateFaults == {"none", "kzalloc", "pasid", "mmu_notifier"}

\* create_process, lines 576-609: up to hash_add_rcu; a failure before it
\* frees what was allocated and returns ERR_PTR
CCreate ==
  \E t \in Creators, fault \in CreateFaults :
     /\ ppc[t] = "c_create"
     /\ IF fault = "none"
        THEN /\ \E i \in PIds : procs[i].st = "none"
             /\ LET i == CHOOSE i \in PIds :
                           /\ procs[i].st = "none"
                           /\ \A j \in PIds : procs[j].st = "none" => i <= j
                IN /\ procs' = [procs EXCEPT ![i] =
                                  [st |-> "new", mm |-> TheMm, pasid |-> ThePasid,
                                   ref |-> 1, work |-> FALSE]]
                   /\ kfd_processes_table' = kfd_processes_table \cup {i}
                   /\ p_loc' = [p_loc EXCEPT ![t] = i]
                   /\ ppc' = [ppc EXCEPT ![t] = "c_init"]
        ELSE /\ p_loc' = [p_loc EXCEPT ![t] = -ENOMEM]
             /\ ppc' = [ppc EXCEPT ![t] = "c_unlock"]
             /\ UNCHANGED <<procs, kfd_processes_table>>
     /\ UNCHANGED <<kfd_processes_mutex, srcu_readers, srcu_wait, created,
                    rcu_cb, p_uaf, mm_alive>>
     /\ UNCHANGED notpvars

\* create_process, lines 611-644: the lead thread, pqm_init, the apertures,
\* the IB memory and CWSR; when one of them fails, lines 646-653, what was
\* set up is taken down and the process is unhashed (hash_del_rcu)
CInit ==
  \E t \in Creators, ok \in BOOLEAN :
     /\ PStep(t, "c_init", IF ok THEN "c_unlock" ELSE "c_err")
     /\ IF ok
        THEN /\ procs' = [procs EXCEPT ![p_loc[t]].st = "ok"]
             /\ UNCHANGED kfd_processes_table
        ELSE /\ kfd_processes_table' = kfd_processes_table \ {p_loc[t]}
             /\ UNCHANGED procs
     /\ UNCHANGED <<kfd_processes_mutex, srcu_readers, srcu_wait, p_loc, created,
                    rcu_cb, p_uaf, mm_alive>>
     /\ UNCHANGED notpvars

\* create_process, lines 654-662: synchronize_rcu(), which does not wait for
\* the read sections of kfd_processes_srcu, the notifier is unregistered, the
\* pasid is freed, kfree(process), return ERR_PTR(err)
CErr ==
  \E t \in Creators :
     /\ PStep(t, "c_err", "c_unlock")
     /\ procs' = [procs EXCEPT ![p_loc[t]].st = "failed", ![p_loc[t]].pasid = 0]
     /\ p_loc' = [p_loc EXCEPT ![t] = -ENOMEM]
     /\ UNCHANGED <<kfd_processes_table, kfd_processes_mutex, srcu_readers,
                    srcu_wait, created, rcu_cb, p_uaf, mm_alive>>
     /\ UNCHANGED notpvars

\* kfd_create_process, lines 251-253: mutex_unlock, return process
CUnlock ==
  \E t \in Creators :
     /\ PStep(t, "c_unlock", "idle")
     /\ kfd_processes_mutex' = NULL
     /\ created' = IF p_loc[t] > 0 THEN created \cup {p_loc[t]} ELSE created
     /\ p_loc' = [p_loc EXCEPT ![t] = 0]
     /\ UNCHANGED <<kfd_processes_table, procs, srcu_readers, srcu_wait, rcu_cb,
                    p_uaf, mm_alive>>
     /\ UNCHANGED notpvars

\* the lookups that take a reference: kfd_lookup_process_by_pid (lines
\* 312-326, through find_process(task, true)), kfd_lookup_process_by_pasid
\* (lines 1024-1048) and kfd_lookup_process_by_mm (lines 1051-1064)
LookupKinds == {"pid", "pasid", "mm"}

\* srcu_read_lock(&kfd_processes_srcu)
LLock ==
  \E t \in Lookers :
     /\ PStep(t, "idle", "l_find")
     /\ srcu_readers' = srcu_readers \cup {t}
     /\ UNCHANGED <<kfd_processes_table, procs, kfd_processes_mutex, srcu_wait,
                    p_loc, created, rcu_cb, p_uaf, mm_alive>>
     /\ UNCHANGED notpvars

\* the walk of the table, by mm or by pasid
LFind ==
  \E t \in Lookers, kind \in LookupKinds :
     LET p == IF kind = "pasid"
              THEN find_process_by_pasid(kfd_processes_table, procs, ThePasid)
              ELSE find_process_by_mm(kfd_processes_table, procs, TheMm) IN
     /\ PStep(t, "l_find", IF p # 0 THEN "l_get" ELSE "l_unlock")
     /\ p_loc' = [p_loc EXCEPT ![t] = p]
     /\ UNCHANGED <<kfd_processes_table, procs, kfd_processes_mutex,
                    srcu_readers, srcu_wait, created, rcu_cb, p_uaf, mm_alive>>
     /\ UNCHANGED notpvars

\* the kfd_process structures whose memory has been freed
FreedProcs == {i \in PIds : procs[i].st \in {"failed", "freed"}}

\* kref_get(&p->ref), lines 300, 1038, 1059; on a process that has been freed
\* it writes to freed memory: the thread faults, or the count in the freed
\* structure is incremented
LGet ==
  \E t \in Lookers, oops \in BOOLEAN :
     /\ ppc[t] = "l_get"
     /\ oops => p_loc[t] \in FreedProcs
     /\ ppc' = [ppc EXCEPT ![t] = IF oops THEN "oops" ELSE "l_unlock"]
     /\ procs' = IF oops THEN procs ELSE [procs EXCEPT ![p_loc[t]].ref = @ + 1]
     /\ p_uaf' = (p_uaf \/ p_loc[t] \in FreedProcs)
     /\ UNCHANGED <<kfd_processes_table, kfd_processes_mutex, srcu_readers,
                    srcu_wait, p_loc, created, rcu_cb, mm_alive>>
     /\ UNCHANGED notpvars

\* srcu_read_unlock, return p
LUnlock ==
  \E t \in Lookers :
     /\ PStep(t, "l_unlock", IF p_loc[t] # 0 THEN "l_held" ELSE "idle")
     /\ srcu_readers' = srcu_readers \ {t}
     /\ srcu_wait' = srcu_wait \ {t}
     /\ UNCHANGED <<kfd_processes_table, procs, kfd_processes_mutex, p_loc,
                    created, rcu_cb, p_uaf, mm_alive>>
     /\ UNCHANGED notpvars

\* the caller of the lookup: kfd_unref_process(p)
LUnref ==
  \E t \in Lookers :
     /\ PStep(t, "l_held", "idle")
     /\ procs' = kfd_unref_process(procs, p_loc[t])
     /\ p_loc' = [p_loc EXCEPT ![t] = 0]
     /\ p_uaf' = (p_uaf \/ p_loc[t] \in FreedProcs)
     /\ UNCHANGED <<kfd_processes_table, kfd_processes_mutex, srcu_readers,
                    srcu_wait, created, rcu_cb, mm_alive>>
     /\ UNCHANGED notpvars

\* kfd_process_notifier_release(mn, mm), lines 443-464: it runs when the mm
\* is torn down, for the process whose notifier is registered; under
\* kfd_processes_mutex the process is unhashed
NDel ==
  /\ PStep(Notifier, "idle", "n_sync")
  /\ mm_alive
  /\ \A t \in Creators : ppc[t] = "idle"
  /\ kfd_processes_mutex = NULL
  /\ \E p \in kfd_processes_table :
        /\ procs[p].st = "ok" /\ procs[p].mm = TheMm
        /\ kfd_processes_table' = kfd_processes_table \ {p}
        /\ p_loc' = [p_loc EXCEPT ![Notifier] = p]
  /\ mm_alive' = FALSE
  /\ UNCHANGED <<procs, kfd_processes_mutex, srcu_readers, srcu_wait, created,
                 rcu_cb, p_uaf>>
  /\ UNCHANGED notpvars

\* line 465: synchronize_srcu(&kfd_processes_srcu) is called
NSync ==
  /\ PStep(Notifier, "n_sync", "n_wait")
  /\ srcu_wait' = synchronize_srcu(srcu_readers)
  /\ UNCHANGED <<kfd_processes_table, procs, kfd_processes_mutex,
                 srcu_readers, p_loc, created, rcu_cb, p_uaf, mm_alive>>
  /\ UNCHANGED notpvars

\* synchronize_srcu returns
NWait ==
  /\ PStep(Notifier, "n_wait", "n_call")
  /\ srcu_wait = {}
  /\ UNCHANGED <<kfd_processes_table, procs, kfd_processes_mutex,
                 srcu_readers, srcu_wait, p_loc, created, rcu_cb, p_uaf,
                 mm_alive>>
  /\ UNCHANGED notpvars

\* lines 467-509: the queues of the process are taken down, p->mm = NULL, the
\* notifier is unregistered and kfd_process_destroy_delayed is handed to
\* mmu_notifier_call_srcu
NCall ==
  /\ PStep(Notifier, "n_call", "n_done")
  /\ procs' = [procs EXCEPT ![p_loc[Notifier]].mm = 0]
  /\ rcu_cb' = p_loc[Notifier]
  /\ UNCHANGED <<kfd_processes_table, kfd_processes_mutex, srcu_readers,
                 srcu_wait, p_loc, created, p_uaf, mm_alive>>
  /\ UNCHANGED notpvars

\* kfd_process_destroy_delayed(rcu), lines 436-441: kfd_unref_process(p)
DestroyDelayed ==
  /\ rcu_cb # 0
  /\ procs' = kfd_unref_process(procs, rcu_cb)
  /\ rcu_cb' = 0
  /\ UNCHANGED <<kfd_processes_table, kfd_processes_mutex, srcu_readers,
                 srcu_wait, ppc, p_loc, created, p_uaf, mm_alive>>
  /\ UNCHANGED notpvars

\* kfd_process_wq_release(work), lines 386-423: the buffers, the per-device
\* data, the events and the pasid of the process are released, kfree(p)
WqRelease ==
  \E p \in PIds :
     /\ procs[p].work
     /\ procs' = [procs EXCEPT ![p].work = FALSE, ![p].st = "freed",
                               ![p].pasid = 0]
     /\ UNCHANGED <<kfd_processes_table, kfd_processes_mutex, srcu_readers,
                    srcu_wait, ppc, p_loc, created, rcu_cb, p_uaf, mm_alive>>
     /\ UNCHANGED notpvars

NextProc ==
  \/ CLock \/ CFind \/ CCreate \/ CInit \/ CErr \/ CUnlock
  \/ LLock \/ LFind \/ LGet \/ LUnlock \/ LUnref
  \/ NDel \/ NSync \/ NWait \/ NCall
  \/ DestroyDelayed \/ WqRelease

\* threads create the process of their mm and look it up while the mm is
\* alive and while it is torn down
SpecProc == Init /\ [][NextProc]_vars

\* ---------------------------------------------------- the making of a process
\* create_process (kfd_process.c) with what it sets up: the structure
\* (cp.alloc), the entry of kfd_processes_table (cp.table), the PASID
\* (cp.pasid), the MMU notifier (cp.notifier), the reference on the lead
\* thread (cp.lead, the count above its value before the call), the
\* kfd_process_device of each device (cp.pdds), their handle tables (cp.idr),
\* p->bo_interval_tree (cp.tree, the mem of the live nodes; cp.dangling: the
\* node of a freed kfd_bo is in it) and the memory objects: cp.made are those
\* alloc_memory_of_gpu has given, cp.mapped[m] the devices m is mapped to,
\* cp.frees[m] the calls of free_memory_of_gpu for m.  cp.unmaps[m] are the
\* devices kfd_process_free_outstanding_kfd_bos has unmapped m from, cp.swept
\* says that it has run, cp.hfail that a handle creation has failed.

\* everything but the variables of the calls modelled on their own
notkvars ==
  <<mn_hash, objects, bo_mn, userptr, bo_size, recursion, rw_readers, pending,
    last, rw_writer, rw_waiting, read_lock, mn_lock, pc, t_ctx, t_queued, wl,
    dvars, gvars, hvars, evars, pvars>>

\* the device and the memory object of turn k of the two loops over the
\* devices: kfd_process_reserve_ib_mem first, kfd_process_init_cwsr second
DevOfTurn(k) == ((k - 1) % Cardinality(Devs)) + 1
MemOfTurn(k) == k

\* the kfd_bo of a handle of create_process
GpuBo(m) ==
  [start |-> m, last |-> m, mem |-> m, kfd_ipc_obj |-> NULL, freed |-> FALSE]

\* the memory objects that have a handle
Handled(c) ==
  {c.idr[q[1]][q[2]].mem :
     q \in {x \in Devs \X (1..MaxHandle) : c.idr[x[1]][x[2]] # NoBo}}

\* (variant: a buffer is unmapped from its own device only)
PeerPdds_own(c, d) == {d}

\* lines 340-345: the devices the inner loop of
\* kfd_process_free_outstanding_kfd_bos unmaps a buffer of device d from
PeerPdds(c, d) == c.pdds

\* (variant: the buffers are left as they are)
kfd_process_free_outstanding_kfd_bos_none(c) == [c EXCEPT !.swept = TRUE]

\* kfd_process_free_outstanding_kfd_bos, lines 328-353: for every pdd and
\* every handle of its table the buffer is unmapped from every pdd's device,
\* freed, and the handle removed (kfd_process_device_remove_obj_handle takes
\* the kfd_bo out of the table and its node out of the interval tree)
kfd_process_free_outstanding_kfd_bos(c) ==
  LET own == [d \in Devs |->
                {c.idr[d][h].mem : h \in {x \in 1..MaxHandle : c.idr[d][x] # NoBo}}]
      ms == UNION {own[d] : d \in c.pdds}
      devOf == [m \in GpuMems |-> CHOOSE d \in Devs : m \in own[d] \/ m \notin ms]
  IN [c EXCEPT
        !.idr = [d \in Devs |->
                   IF d \in c.pdds THEN [h \in 1..MaxHandle |-> NoBo]
                   ELSE c.idr[d]],
        !.tree = @ \ ms,
        !.mapped = [m \in GpuMems |->
                      IF m \in ms THEN c.mapped[m] \ PeerPdds(c, devOf[m])
                      ELSE c.mapped[m]],
        !.unmaps = [m \in GpuMems |->
                      IF m \in ms THEN c.unmaps[m] \cup PeerPdds(c, devOf[m])
                      ELSE c.unmaps[m]],
        !.frees = [m \in GpuMems |->
                     IF m \in ms THEN c.frees[m] + 1 ELSE c.frees[m]],
        !.swept = TRUE]

\* kfd_process_destroy_pdds, lines 355-379
kfd_process_destroy_pdds(c) == [c EXCEPT !.pdds = {}]

\* create_process, lines 653-660, from err_process_pqm_init on: hash_del_rcu,
\* synchronize_rcu, mmu_notifier_unregister_no_release, mutex_destroy,
\* kfd_pasid_free, kfree(process); the lead thread is not touched
err_process_pqm_init(c) ==
  [c EXCEPT !.table = FALSE, !.notifier = FALSE, !.pasid = FALSE,
            !.alloc = FALSE]

\* create_process, lines 576-609: kzalloc, kfd_pasid_alloc,
\* mmu_notifier_register, hash_add_rcu; a failure takes lines 656-662
CpCall ==
  \E fault \in CreateFaults :
     /\ cp.pc \in {"idle", "done", "released"}
     /\ cp' = IF fault = "none"
              THEN [NoCreate EXCEPT !.pc = "lead", !.alloc = TRUE,
                                    !.pasid = TRUE, !.notifier = TRUE,
                                    !.table = TRUE]
              ELSE [NoCreate EXCEPT !.pc = "done", !.err = -ENOMEM,
                                    !.fault = fault]
     /\ UNCHANGED <<notkvars, resv, fw, wa, ew>>

\* lines 611-620: get_task_struct(process->lead_thread), the events, pqm_init
CpLead ==
  \E ok \in BOOLEAN :
     /\ cp.pc = "lead"
     /\ cp' = IF ok
              THEN [cp EXCEPT !.lead = @ + 1, !.pc = "apertures"]
              ELSE [err_process_pqm_init([cp EXCEPT !.lead = @ + 1])
                      EXCEPT !.pc = "done", !.err = -ENOMEM,
                             !.fault = "pqm_init"]
     /\ UNCHANGED <<notkvars, resv, fw, wa, ew>>

\* lines 623-626: kfd_init_apertures makes the kfd_process_device of every
\* device with kfd_create_process_device_data (lines 702-743); when it fails
\* some of them may have been made, and lines 650-660 leave them alone
CpApertures ==
  \E made \in SUBSET Devs :
     /\ cp.pc = "apertures"
     /\ cp' = IF made = Devs
              THEN [cp EXCEPT !.pdds = Devs, !.pc = "bos", !.k = 1]
              ELSE [err_process_pqm_init([cp EXCEPT !.pdds = made])
                      EXCEPT !.pc = "done", !.err = -ENOMEM,
                             !.fault = "apertures"]
     /\ UNCHANGED <<notkvars, resv, fw, wa, ew>>

\* the steps of kfd_process_alloc_gpuvm that fail: alloc_memory_of_gpu (line
\* 120), map_memory_to_gpu (126), sync_memory (131), the kzalloc and the
\* idr_alloc of kfd_process_device_create_obj_handle (145, 921, 938) and
\* map_gtt_bo_to_kernel (154)
GpuvmFaults == {"none", "alloc", "map", "sync", "kzalloc", "idr", "kmap"}

\* kfd_process_alloc_gpuvm(p, kdev, gpu_va, size, &kaddr, pdd, flags), lines
\* 112-176, for memory object m on device d
kfd_process_alloc_gpuvm(c, d, m, fault) ==
  LET handle == idr_alloc(c.idr[d], MIN_IDR_ID, MAX_IDR_ID, fault = "idr")
      got == [c EXCEPT !.made = @ \cup {m}]
      mapd == [got EXCEPT !.mapped[m] = @ \cup {d}]
      gone == [mapd EXCEPT !.mapped[m] = @ \ {d}, !.frees[m] = @ + 1]
  IN IF fault = "alloc" THEN c
     ELSE IF fault = "map" THEN [got EXCEPT !.frees[m] = @ + 1]
     ELSE IF fault = "sync" THEN gone
     ELSE IF fault = "kzalloc" THEN [gone EXCEPT !.hfail = TRUE]
     ELSE IF handle < 0
     THEN [gone EXCEPT !.hfail = TRUE, !.dangling = TRUE]
     ELSE IF fault = "kmap" THEN gone
     ELSE [mapd EXCEPT !.idr[d][handle] = GpuBo(m), !.tree = @ \cup {m}]

\* one turn of the loops of kfd_process_reserve_ib_mem (lines 195-219) and
\* kfd_process_init_cwsr (lines 529-571): the device is skipped or its
\* memory is made; a failure takes create_process to lines 646-660
CpGpuvm ==
  \E skip \in BOOLEAN, fault \in GpuvmFaults :
     /\ cp.pc = "bos"
     /\ cp.k <= Cardinality(GpuMems)
     /\ skip => fault = "none"
     /\ LET c == kfd_process_alloc_gpuvm(cp, DevOfTurn(cp.k), MemOfTurn(cp.k),
                                         fault)
        IN cp' = IF skip THEN [cp EXCEPT !.k = @ + 1]
                 ELSE IF fault = "none" THEN [c EXCEPT !.k = @ + 1]
                 ELSE [err_process_pqm_init(kfd_process_destroy_pdds(
                         kfd_process_free_outstanding_kfd_bos(c)))
                         EXCEPT !.pc = "done", !.err = -ENOMEM,
                                !.fault = fault]
     /\ UNCHANGED <<notkvars, resv, fw, wa, ew>>

\* lines 635-644: the delayed works are set up, the process is returned
CpReturn ==
  /\ cp.pc = "bos"
  /\ cp.k > Cardinality(GpuMems)
  /\ cp' = [cp EXCEPT !.pc = "live"]
  /\ UNCHANGED <<notkvars, resv, fw, wa, ew>>

\* kfd_process_wq_release, lines 386-423, after the process was unhashed and
\* its notifier released: the buffers, the pdds, the PASID, the lead thread
\* and the structure
CpRelease ==
  /\ cp.pc = "live"
  /\ cp' = [kfd_process_destroy_pdds(kfd_process_free_outstanding_kfd_bos(cp))
              EXCEPT !.table = FALSE, !.notifier = FALSE, !.pasid = FALSE,
                     !.lead = @ - 1, !.alloc = FALSE, !.pc = "released"]
  /\ UNCHANGED <<notkvars, resv, fw, wa, ew>>

NextCreate == CpCall \/ CpLead \/ CpApertures \/ CpGpuvm \/ CpReturn \/ CpRelease

\* create_process calls, each followed by the release of the process when it
\* succeeded
SpecCreate == Init /\ [][NextCreate]_vars

\* ------------------------------------ the works of a process that goes away
\* kfd_process_notifier_release (kfd_process.c) against the requests for an
\* eviction of the same mm.  The requests (kgd2kfd_schedule_evict_and_restore_
\* process) and the workers (kfd_evict_bo_worker, kfd_restore_bo_worker) are
\* declared in part_001, lines 599-602; their bodies are not among the
\* sources, and they are modelled by what is stated of them: a request finds
\* the process through the process table and queues the eviction work, a
\* worker that fails is queued again after a delay, an eviction that
\* succeeds queues the restore work.

\* kfd_lookup_process_by_mm(mm), lines 1051-1064, by a request
EwRequest ==
  \E r \in Requesters :
     /\ ew.req[r] = "idle"
     /\ ew.table
     /\ ew' = [ew EXCEPT !.req[r] = "held"]
     /\ UNCHANGED <<notkvars, resv, fw, wa, cp>>

\* the request queues the eviction work of the process it has found
\* (schedule_delayed_work) and drops its reference (kfd_unref_process)
EwSchedule ==
  \E r \in Requesters :
     /\ ew.req[r] = "held"
     /\ ew' = [ew EXCEPT !.req[r] = "idle", !.pending["evict"] = TRUE]
     /\ UNCHANGED <<notkvars, resv, fw, wa, cp>>

\* the delay of a queued work is over and its worker starts
EwStart ==
  \E w \in Works :
     /\ ew.pending[w] /\ ~ew.running[w]
     /\ ew' = [ew EXCEPT !.pending[w] = FALSE, !.running[w] = TRUE]
     /\ UNCHANGED <<notkvars, resv, fw, wa, cp>>

\* a worker ends: one that failed queues its work again, an eviction that
\* succeeded queues the restore work
EwEnd ==
  \E w \in Works, ok \in BOOLEAN :
     /\ ew.running[w]
     /\ ew' = [ew EXCEPT
                 !.running[w] = FALSE,
                 !.pending = IF ~ok THEN [@ EXCEPT ![w] = TRUE]
                             ELSE IF w = "evict"
                             THEN [@ EXCEPT !["restore"] = TRUE]
                             ELSE @]
     /\ UNCHANGED <<notkvars, resv, fw, wa, cp>>

\* kfd_process_notifier_release, lines 459-460:
\* cancel_delayed_work_sync(&p->eviction_work.dwork), then
\* cancel_delayed_work_sync(&p->restore_work); each waits for its worker
\* when it runs and takes the work off the queue
EwCancel ==
  LET w == IF ew.npc = "idle" THEN "evict" ELSE "restore" IN
  /\ ew.npc \in {"idle", "evict_cancelled"}
  /\ ~ew.running[w]
  /\ ew' = [ew EXCEPT !.pending[w] = FALSE,
                      !.npc = IF w = "evict" THEN "evict_cancelled"
                              ELSE "cancelled"]
  /\ UNCHANGED <<notkvars, resv, fw, wa, cp>>

\* lines 462-465: hash_del_rcu under kfd_processes_mutex, synchronize_srcu
\* (the lookup of a request is one step, so no read section is open)
EwUnhash ==
  /\ ew.npc = "cancelled"
  /\ ew' = [ew EXCEPT !.table = FALSE, !.npc = "unhashed"]
  /\ UNCHANGED <<notkvars, resv, fw, wa, cp>>

\* lines 467-510: the queues are taken down, the notifier is unregistered,
\* kfd_process_notifier_release returns
EwReturn ==
  /\ ew.npc = "unhashed"
  /\ ew' = [ew EXCEPT !.npc = "returned"]
  /\ UNCHANGED <<notkvars, resv, fw, wa, cp>>

NextEw ==
  EwRequest \/ EwSchedule \/ EwStart \/ EwEnd \/ EwCancel \/ EwUnhash
    \/ EwReturn

\* the notifier release of a process while evictions of its mm are asked for
SpecEw == Init /\ [][NextEw]_vars

\* ------------------------------------------- the wait on a reservation object
\* _kcl_reservation_object_wait_timeout_rcu (kcl_reservation.c), for an
\* object whose fences are not replaced while the call runs.

ERESTARTSYS == 512

\* the shared fences of an object
SharedLists ==
  UNION {[1..n -> BOOLEAN] : n \in 0..MaxShared}

\* the call, lines 42-48: i = 0, ret = timeout ? timeout : 1
ResvCall ==
  \E excl \in 0..2, shared \in SharedLists, wait_all \in BOOLEAN,
     intr \in BOOLEAN, timeout \in 0..MaxTimeout :
     /\ resv.pc \in {"idle", "done"}
     /\ resv' = [NoResv EXCEPT !.pc = "retry", !.excl = excl,
                               !.shared = shared, !.wait_all = wait_all,
                               !.intr = intr,
                               !.ret = IF timeout # 0 THEN timeout ELSE 1]
     /\ UNCHANGED <<notkvars, fw, wa, cp, ew>>

\* the index of the first shared fence from i on that has not signaled,
\* Len(shared) + 1 when there is none: the loop of lines 83-99
RECURSIVE FirstUnsignaled(_, _)
FirstUnsignaled(shared, i) ==
  IF i > Len(shared) \/ ~shared[i] THEN i ELSE FirstUnsignaled(shared, i + 1)

\* lines 50-102, from retry to rcu_read_unlock: the fence to wait for (0 the
\* exclusive one, k the shared fence shared[k - 1] of the code, -1 none);
\* shared_count is set to 0 and i keeps its value when the shared fences are
\* not looked at
resv_scan(r) ==
  LET k == FirstUnsignaled(r.shared, 1)
  IN IF r.excl = 1
     THEN [r EXCEPT !.fence = 0, !.shared_count = 0]
     ELSE IF r.wait_all
     THEN [r EXCEPT !.shared_count = Len(r.shared), !.i = k - 1,
                    !.fence = IF k <= Len(r.shared) THEN k ELSE -1]
     ELSE [r EXCEPT !.fence = -1, !.shared_count = 0]

ResvScan ==
  /\ resv.pc = "retry"
  /\ resv' = [resv_scan(resv) EXCEPT
                !.pc = IF resv_scan(resv).fence = -1 THEN "done" ELSE "wait"]
  /\ UNCHANGED <<notkvars, fw, wa, cp, ew>>

\* a fence of the object signals
ResvSignal ==
  /\ resv.pc \in {"retry", "wait"}
  /\ \/ /\ resv.excl = 1
        /\ resv' = [resv EXCEPT !.excl = 2]
     \/ \E k \in 1..Len(resv.shared) :
           /\ ~resv.shared[k]
           /\ resv' = [resv EXCEPT !.shared[k] = TRUE]
  /\ UNCHANGED <<notkvars, fw, wa, cp, ew>>

\* whether the fence the call waits for has signaled
ResvFenceSignaled(r) ==
  IF r.fence = 0 THEN r.excl = 2 ELSE r.shared[r.fence]

\* lines 103-109: ret = kcl_fence_wait_timeout(fence, intr, ret), which gives
\* the time that is left (at least 1) when the fence has signaled, 0 when the
\* time is up and -ERESTARTSYS when the wait is interrupted; then retry when
\* ret > 0 && wait_all && (i + 1 < shared_count), else return ret
ResvWait ==
  \E out \in {"signaled", "timeout", "intr"}, left \in 1..MaxTimeout :
     /\ resv.pc = "wait"
     /\ out = "signaled" => ResvFenceSignaled(resv) /\ left <= resv.ret
     /\ out = "intr" => resv.intr
     /\ LET ret == IF out = "signaled" THEN left
                   ELSE IF out = "timeout" THEN 0 ELSE -ERESTARTSYS
        IN resv' = [resv EXCEPT
                      !.ret = ret,
                      !.pc = IF ret > 0 /\ resv.wait_all
                                /\ resv.i + 1 < resv.shared_count
                             THEN "retry" ELSE "done"]
     /\ UNCHANGED <<notkvars, fw, wa, cp, ew>>

NextResv == ResvCall \/ ResvScan \/ ResvSignal \/ ResvWait

\* calls of the wait, one after the other, on objects with up to MaxShared
\* shared fences that signal while the call runs
SpecResv == Init /\ [][NextResv]_vars

\* ------------------------------------------------------ the wait for a fence
\* _kcl_fence_default_wait (kcl_fence.c).  fw.signaled and fw.enable are
\* FENCE_FLAG_SIGNALED_BIT and FENCE_FLAG_ENABLE_SIGNAL_BIT, fw.sigpend is
\* signal_pending(current), fw.cb whether the callback of the call is on the
\* fence's cb_list; fw.entry records whether the fence had signaled at the
\* call and fw.expired whether schedule_timeout has returned 0.

\* (variant: the timeout as it was given)
wait_ret_raw(timeout) == timeout

\* line 91: ret = timeout ? timeout : 1
wait_ret(timeout) == IF timeout # 0 THEN timeout ELSE 1

\* lines 87-95: the call and the test without the lock
FwCall ==
  \E signaled \in BOOLEAN, enable \in BOOLEAN, intr \in BOOLEAN,
     timeout \in 0..MaxTimeout, sigpend \in BOOLEAN :
     /\ fw.pc \in {"idle", "done"}
     /\ fw' = [NoWait EXCEPT !.pc = IF signaled THEN "done" ELSE "lock",
                             !.signaled = signaled, !.enable = enable,
                             !.intr = intr, !.timeout = timeout,
                             !.sigpend = sigpend, !.entry = signaled,
                             !.ret = wait_ret(timeout)]
     /\ UNCHANGED <<notkvars, resv, wa, cp, ew>>

\* lines 97-129 under the fence's lock: a pending signal, the enable bit, a
\* fence that has signaled, enable_signaling (enabled says what it returns),
\* a timeout of 0, and the callback put on the list; line 149-151 where the
\* code goes to out
FwLocked ==
  \E enabled \in BOOLEAN :
     /\ fw.pc = "lock"
     /\ fw' =
          IF fw.intr /\ fw.sigpend
          THEN [fw EXCEPT !.ret = -ERESTARTSYS, !.pc = "done"]
          ELSE IF fw.signaled
          THEN [fw EXCEPT !.enable = TRUE, !.pc = "done"]
          ELSE IF ~fw.enable /\ ~enabled
          THEN [fw EXCEPT !.enable = TRUE, !.signaled = TRUE, !.pc = "done"]
          ELSE IF fw.timeout = 0
          THEN [fw EXCEPT !.enable = TRUE, !.ret = 0, !.pc = "done"]
          ELSE [fw EXCEPT !.enable = TRUE, !.cb = TRUE, !.pc = "loop"]
     /\ UNCHANGED <<notkvars, resv, wa, cp, ew>>

\* lines 131-143, one turn of the loop: schedule_timeout gives the time that
\* is left, 0 when it is up; while the task sleeps the lock is free, so the
\* fence may signal and a signal may arrive before the lock is taken again
FwSleep ==
  \E left \in 0..MaxTimeout, signals \in BOOLEAN, sig \in BOOLEAN :
     /\ fw.pc = "loop"
     /\ ~fw.signaled /\ fw.ret > 0
     /\ left <= fw.ret
     /\ LET pend == fw.sigpend \/ sig
        IN fw' = [fw EXCEPT
                    !.signaled = signals,
                    !.cb = ~signals,
                    !.sigpend = pend,
                    !.expired = (left = 0),
                    !.ret = IF left > 0 /\ fw.intr /\ pend
                            THEN -ERESTARTSYS ELSE left]
     /\ UNCHANGED <<notkvars, resv, wa, cp, ew>>

\* the loop is left, lines 145-151: the callback is taken off the list when
\* it is still on it
FwOut ==
  /\ fw.pc = "loop"
  /\ fw.signaled \/ fw.ret <= 0
  /\ fw' = [fw EXCEPT !.cb = FALSE, !.pc = "done"]
  /\ UNCHANGED <<notkvars, resv, wa, cp, ew>>

\* the fence signals while its lock is free: fence_signal sets the bit and
\* takes every callback off the list
FwSignal ==
  /\ fw.pc \in {"lock", "loop"}
  /\ ~fw.signaled
  /\ fw' = [fw EXCEPT !.signaled = TRUE, !.cb = FALSE]
  /\ UNCHANGED <<notkvars, resv, wa, cp, ew>>

\* a signal for the task arrives
FwSigPend ==
  /\ fw.pc \in {"lock", "loop"}
  /\ ~fw.sigpend
  /\ fw' = [fw EXCEPT !.sigpend = TRUE]
  /\ UNCHANGED <<notkvars, resv, wa, cp, ew>>

NextFw == FwCall \/ FwLocked \/ FwSleep \/ FwOut \/ FwSignal \/ FwSigPend

\* calls of the wait, one after the other, for a fence that may signal and a
\* task that may get a signal while the call runs
SpecFw == Init /\ [][NextFw]_vars

\* ------------------------------------------------ the wait for any of a list
\* _kcl_fence_wait_any_timeout (kcl_fence.c).  Fence k of the model is
\* fences[k - 1] of the code; wa.i is the code's i.  wa.cbs holds the k whose
\* callback cb[k - 1] is on the list of fence k; wa.added the k the call has
\* added a callback to, wa.removed the k it has called fence_remove_callback
\* for, wa.path the way the call came to return.

EINVAL == 22

\* a fence: whether it has signaled and whether its wait operation is another
\* one than kcl_fence_default_wait
AnyFences ==
  UNION {[1..n -> [signaled : BOOLEAN, foreign : BOOLEAN]] : n \in 0..MaxFences}

\* lines 170-196: the arguments, a timeout of 0 and the allocation of the
\* callbacks (alloc says whether kcalloc gives memory)
WaCall ==
  \E fences \in AnyFences, intr \in BOOLEAN, timeout \in (-1)..MaxTimeout,
     alloc \in BOOLEAN :
     /\ wa.pc \in {"idle", "done"}
     /\ wa' =
          LET w == [NoAny EXCEPT !.fences = fences, !.intr = intr,
                                 !.ret = timeout]
          IN IF Len(fences) = 0 \/ timeout < 0
             THEN [w EXCEPT !.ret = -EINVAL, !.pc = "done", !.path = "invalid"]
             ELSE IF timeout = 0
             THEN [w EXCEPT
                     !.ret = IF \E k \in 1..Len(fences) : fences[k].signaled
                             THEN 1 ELSE 0,
                     !.pc = "done", !.path = "zero"]
             ELSE IF ~alloc
             THEN [w EXCEPT !.ret = -ENOMEM, !.pc = "done", !.path = "nomem"]
             ELSE [w EXCEPT !.pc = "add"]
     /\ UNCHANGED <<notkvars, resv, fw, cp, ew>>

\* lines 198-214, one turn of the loop: a foreign wait operation, a fence
\* that has signaled (fence_add_callback fails and adds nothing), or the
\* callback is added
WaAdd ==
  /\ wa.pc = "add"
  /\ wa' =
       LET k == wa.i + 1
       IN IF wa.i >= Len(wa.fences)
          THEN [wa EXCEPT !.pc = "loop"]
          ELSE IF wa.fences[k].foreign
          THEN [wa EXCEPT !.ret = -EINVAL, !.pc = "rm", !.path = "foreign"]
          ELSE IF wa.fences[k].signaled
          THEN [wa EXCEPT !.pc = "rm", !.path = "signaled"]
          ELSE [wa EXCEPT !.cbs = @ \cup {k}, !.added = @ \cup {k}, !.i = k]
  /\ UNCHANGED <<notkvars, resv, fw, cp, ew>>

\* fence_test_signaled_any
AnySignaled(fences) ==
  \E k \in 1..Len(fences) : fences[k].signaled

\* lines 216-229, a turn of the loop that sleeps: schedule_timeout gives the
\* time that is left, sig says whether a signal is pending after it
WaSleep ==
  \E left \in 0..MaxTimeout, sig \in BOOLEAN :
     /\ wa.pc = "loop"
     /\ wa.ret > 0 /\ ~AnySignaled(wa.fences)
     /\ left <= wa.ret
     /\ wa' = [wa EXCEPT
                 !.ret = IF left > 0 /\ wa.intr /\ sig
                         THEN -ERESTARTSYS ELSE left,
                 !.path = IF left > 0 /\ wa.intr /\ sig THEN "interrupted"
                          ELSE IF left = 0 THEN "timeout" ELSE @]
     /\ UNCHANGED <<notkvars, resv, fw, cp, ew>>

\* lines 216-231: the loop is left, by its condition or by the break
WaBreak ==
  /\ wa.pc = "loop"
  /\ wa.ret <= 0 \/ AnySignaled(wa.fences)
  /\ wa' = [wa EXCEPT !.pc = "rm",
                      !.path = IF wa.ret > 0 THEN "signal" ELSE @]
  /\ UNCHANGED <<notkvars, resv, fw, cp, ew>>

\* (variant: the loop stops one callback early)
fence_rm_cb_short(i) == 2..i

\* lines 233-235: while (i-- > 0) fence_remove_callback(fences[i], ...), the
\* fences the loop calls it for
fence_rm_cb(i) == 1..i

\* lines 233-240: the callbacks are removed and freed, the call returns
WaRemove ==
  /\ wa.pc = "rm"
  /\ wa' = [wa EXCEPT !.cbs = @ \ fence_rm_cb(wa.i),
                      !.removed = fence_rm_cb(wa.i),
                      !.pc = "done"]
  /\ UNCHANGED <<notkvars, resv, fw, cp, ew>>

\* a fence signals: fence_signal sets the bit and takes every callback off
\* the fence's list
WaSignal ==
  \E k \in 1..Len(wa.fences) :
     /\ wa.pc \in {"add", "loop", "rm"}
     /\ ~wa.fences[k].signaled
     /\ wa' = [wa EXCEPT !.fences[k].signaled = TRUE, !.cbs = @ \ {k}]
     /\ UNCHANGED <<notkvars, resv, fw, cp, ew>>

NextWa == WaCall \/ WaAdd \/ WaSleep \/ WaBreak \/ WaRemove \/ WaSignal

\* calls of _kcl_fence_wait_any_timeout, one after the other, on up to
\* MaxFences fences that may signal while the call runs
SpecWa == Init /\ [][NextWa]_vars

\* ------------------------------------------------------------- progress
\* The threads of SpecLock and a caller of amdgpu_mn_get, on the graphics
\* context and one buffer (the locking does not depend on the data), with
\* the scheduling the locks give: a thread that can take a step takes it, a
\* thread that waits for a mutex or for the semaphore gets it when it is
\* free again and again, and a range-start is followed by its range-end.

LiveStart == \E t \in Walkers : RL_Mutex(t, "GFX")
LiveEnd == \E t \in Walkers : RE_Dec(t, "GFX")
LiveRegister == W_Register(1, 0, 1, FALSE, "none")
LiveUnregister == W_Unregister(1)
LiveGet == G_Call("g1", 8, "GFX")

\* the steps of a call that wait for nothing
LiveSteps ==
  \/ RangeStartInc \/ RangeStartUnlock \/ RangeStartWalk \/ RangeEndUp
  \/ Un_Test \/ Un_Ret \/ W_Down \/ Reg_Loop \/ RegisterAlloc \/ Reg_Insert
  \/ Un_Del \/ Un_Free
  \/ DestroyStart \/ D_Down \/ De_Del \/ DestroyBo \/ DestroyKfree
  \/ De_Unlock \/ De_Free
  \/ GetMmap \/ GetIntr \/ GetFind \/ GetAlloc \/ GetNotif \/ GetRel \/ GetFree

NextLive ==
  \/ LiveStart \/ LiveEnd \/ LiveRegister \/ LiveUnregister \/ LiveGet
  \/ Release \/ RangeStartDown \/ W_Wait \/ D_Lock \/ D_Wait \/ GetLock
  \/ LiveSteps

LiveFair ==
  /\ \A t \in Walkers :
        /\ WF_vars(RL_Inc(t)) /\ WF_vars(RL_Unlock(t)) /\ WF_vars(Walk(t))
        /\ WF_vars(RE_Up(t))
        /\ SF_vars(RL_Down(t))
  /\ SF_vars(LiveEnd)
  /\ WF_vars(Un_Test \/ Un_Ret \/ W_Down \/ Reg_Loop \/ RegisterAlloc
             \/ Reg_Insert \/ Un_Del \/ Un_Free)
  /\ SF_vars(W_Wait)
  /\ WF_vars(DestroyStart \/ D_Down \/ De_Del \/ DestroyBo \/ DestroyKfree
             \/ De_Unlock \/ De_Free)
  /\ SF_vars(D_Lock) /\ SF_vars(D_Wait)
  /\ WF_vars(GetMmap \/ GetIntr \/ GetFind \/ GetAlloc \/ GetNotif \/ GetRel
             \/ GetFree)
  /\ SF_vars(GetLock)

SpecLive == Init /\ [][NextLive]_vars /\ LiveFair

\* ------------------------------------------------------------------ claims
\* the range of a registered buffer: [userptr, userptr + size - 1]
BoStart(b) == userptr[b]
BoLast(b) == (userptr[b] + bo_size[b] - 1) % AddrLimit
Intersect(s1, l1, s2, l2) == s1 <= l2 /\ s2 <= l1
BoIntersect(a, b) == Intersect(BoStart(a), BoLast(a), BoStart(b), BoLast(b))
NodesOf(c, b) == {n \in objects[c] : b \in n.bos}

\* C1: after any sequence of register and unregister calls on a context, no
\* two nodes of its interval tree have intersecting [start, last] ranges.
C1_NoOverlappingNodes ==
  \A c \in Types : \A n1, n2 \in objects[c] :
     n1 # n2 => ~Intersect(n1.start, n1.last, n2.start, n2.last)

\* two disjoint nodes are in the tree after a register
C1_Witness ==
  /\ (last.op = "register" /\ last.ret = "ok")
  /\ Cardinality(objects["GFX"]) >= 2

\* the buffers of context c reachable from the set S through intersecting
\* ranges (the maximal cluster of S)
RECURSIVE Cluster(_, _)
Cluster(c, S) ==
  LET T == S \cup {b \in Registered(c) : \E a \in S : BoIntersect(a, b)}
  IN IF T = S THEN S ELSE Cluster(c, T)

\* C2 as stated: the tree has exactly one node per maximal cluster of
\* overlapping ranges of the registered buffers: two registered buffers are in
\* the same node exactly when they are in the same cluster.
C2_OneNodePerCluster ==
  \A c \in Types : \A a, b \in Registered(c) :
     (NodesOf(c, a) = NodesOf(c, b)) <=> (b \in Cluster(c, {a}))

\* C2 amended: every registered buffer is in exactly one node and the buffers
\* of one maximal cluster share a node; a node is never split, so it may hold
\* several clusters after an unregister.
C2_ClusterInOneNode ==
  \A c \in Types : \A a \in Registered(c) :
     /\ Cardinality(NodesOf(c, a)) = 1
     /\ \A b \in Cluster(c, {a}) : NodesOf(c, b) = NodesOf(c, a)

\* an unregister has left two buffers of different clusters in one node
C2_Witness ==
  /\ last.op = "unregister"
  /\ \E a, b \in Registered("GFX") :
        /\ NodesOf("GFX", a) = NodesOf("GFX", b)
        /\ b \notin Cluster("GFX", {a})

\* C3: between operations a buffer is in a list of a node of context c if and
\* only if its bo->mn is c; a buffer in no list has a null bo->mn.
C3_BackRefIffLinked ==
  \A b \in BOs :
     /\ \A c \in Types : (NodesOf(c, b) # {}) <=> (bo_mn[b] = c)
     /\ (\A c \in Types : NodesOf(c, b) = {}) => bo_mn[b] = NULL

\* after an unregister one buffer is linked in the compute context and the
\* other one is in no list
C3_Witness ==
  /\ last.op = "unregister"
  /\ "GFX" \in mn_hash
  /\ \E a, b \in BOs :
        /\ bo_mn[a] = "HSA" /\ NodesOf("HSA", a) # {}
        /\ bo_mn[b] = NULL /\ NodesOf("GFX", b) = {} /\ NodesOf("HSA", b) = {}

\* the nodes of the tree that register merges for the range [a, e]: those that
\* match the range, and those that match once it is widened over them
RECURSIVE Merged(_, _, _)
Merged(tree, a, e) ==
  LET H == {n \in tree : Intersect(n.start, n.last, a, e)}
      a2 == IF \E n \in H : n.start < a
            THEN CHOOSE x \in {n.start : n \in H} : \A n \in H : x <= n.start
            ELSE a
      e2 == IF \E n \in H : n.last > e
            THEN CHOOSE x \in {n.last : n \in H} : \A n \in H : x >= n.last
            ELSE e
  IN IF a2 = a /\ e2 = e THEN [nodes |-> H, start |-> a, last |-> e]
     ELSE Merged(tree, a2, e2)

\* C4: a successful register of a buffer with range R removes every node that
\* overlaps R (also after widening) and inserts one node with the range
\* [min of the starts, max of the lasts] and the union of the removed sets plus
\* the buffer; the other nodes are unchanged.
C4_RegisterMerges ==
  [][\A c \in Types : \A b \in BOs :
        (bo_mn[b] = NULL /\ bo_mn'[b] = c) =>
          LET R == Merged(objects[c], userptr'[b],
                          (userptr'[b] + bo_size'[b] - 1) % AddrLimit)
          IN objects'[c] = (objects[c] \ R.nodes) \cup
               {[start |-> R.start, last |-> R.last,
                 bos |-> UNION {n.bos : n \in R.nodes} \cup {b}]}]_vars

\* nodes [0,1]{A} and [2,2]{B}, then register(C, [1,2]), which overlaps both:
\* one node [0,2]{A,B,C}
C4_Witness ==
  /\ (last.op = "register" /\ last.ret = "ok")
  /\ \E A, B, C \in BOs :
        /\ BoStart(A) = 0 /\ BoLast(A) = 1
        /\ BoStart(B) = 2 /\ BoLast(B) = 2
        /\ BoStart(C) = 1 /\ BoLast(C) = 2
        /\ objects["GFX"] = {[start |-> 0, last |-> 2, bos |-> {A, B, C}]}

\* C5 as stated: the range of every node is the union of the ranges of the
\* buffers in its list (smallest start to largest last).
C5_NodeRangeIsUnion ==
  \A c \in Types : \A n \in objects[c] :
     /\ \A b \in n.bos : n.start <= BoStart(b) /\ BoLast(b) <= n.last
     /\ \E b \in n.bos : n.start = BoStart(b)
     /\ \E b \in n.bos : n.last = BoLast(b)

\* C5 amended: the range of every node contains the range of every buffer in
\* its list (it may be larger once a buffer of the node was unregistered).
C5_NodeRangeCovers ==
  \A c \in Types : \A n \in objects[c] : \A b \in n.bos :
     n.start <= BoStart(b) /\ BoLast(b) <= n.last

\* after an unregister a node is larger than the union of its buffers
C5_Witness ==
  /\ last.op = "unregister"
  /\ \E n \in objects["GFX"] :
        /\ n.bos # {}
        /\ \A b \in n.bos : n.start < BoStart(b) \/ BoLast(b) < n.last

\* C6: unregister removes the buffer from its node and removes the node
\* exactly when its list became empty; every node in a tree has a non-empty
\* list, and no node is left once every buffer is unregistered.
C6_UnregisterStep ==
  \A c \in Types : \A b \in BOs :
     (bo_mn[b] = c /\ bo_mn'[b] = NULL) =>
        \E n \in objects[c] :
           /\ b \in n.bos
           /\ objects'[c] = IF n.bos = {b} THEN objects[c] \ {n}
                            ELSE (objects[c] \ {n}) \cup
                                 {[n EXCEPT !.bos = n.bos \ {b}]}

C6_NodesNonEmpty ==
  /\ \A c \in Types : \A n \in objects[c] : n.bos # {}
  /\ (\A b \in BOs : bo_mn[b] = NULL) => \A c \in Types : objects[c] = {}

C6_UnregisterRemovesEmptyNode ==
  []C6_NodesNonEmpty /\ [][C6_UnregisterStep]_vars

\* the last buffer was unregistered and the tree is empty
C6_Witness ==
  /\ last.op = "unregister"
  /\ "GFX" \in mn_hash
  /\ \A b \in BOs : bo_mn[b] = NULL
  /\ objects["GFX"] = {}

\* the context has a walker between its return from amdgpu_mn_read_lock and
\* its call of amdgpu_mn_read_unlock
InReadSection(c) ==
  \/ pending[c] > 0
  \/ \E t \in Walkers : pc[t] = "walk" /\ t_ctx[t] = c

\* the register, unregister or destroy call is between down_write and
\* up_write of the context
InWriteSection(c) ==
  \/ /\ wl.ctx = c
     /\ pc[Writer] \in {"reg_loop", "reg_alloc", "reg_insert", "un_del",
                        "un_free"}
  \/ d_ctx = c /\ pc[Worker] \in {"de_del", "de_node"}

\* every buffer is in one node's list and has the back-reference, or is in
\* no list and has none; and every node of the tree has buffers
FullyLinked(c) ==
  /\ \A b \in BOs : /\ bo_mn[b] = c <=> NodesOf(c, b) # {}
                    /\ Cardinality(NodesOf(c, b)) <= 1
  /\ \A n \in objects[c] : n.bos # {}

\* C7: while a walk on a context is between its read-lock acquisition and the
\* matching release, no register, unregister or destroy on that context is in
\* its write-locked section, the semaphore is read-held and not write-held,
\* and every buffer is either fully linked (back-reference and list of an
\* indexed node) or not linked at all.
C7_WalkExcludesWriters ==
  \A c \in Types :
    InReadSection(c) =>
      /\ ~InWriteSection(c)
      /\ rw_writer[c] = NULL
      /\ rw_readers[c] >= 1
      /\ FullyLinked(c)

\* a walk is in progress on a context with a registered buffer while a
\* register or unregister is queued for the semaphore of that context
C7_Witness ==
  \E c \in Types, t \in Walkers :
    /\ pc[t] = "walk" /\ t_ctx[t] = c
    /\ pc[Writer] = "w_wait" /\ wl.ctx = c
    /\ \E b \in BOs : bo_mn[b] = c

\* the semaphore is taken exactly when the counter went from 0 to 1 and
\* released exactly when it went from 1 to 0
C8_Step ==
  \A t \in Walkers :
    /\ (pc[t] = "rl_inc" /\ pc'[t] # "rl_inc") =>
         /\ pc'[t] = "rl_down" <=> recursion[t_ctx[t]] = 0
         /\ pc'[t] = "rl_unlock" <=> recursion[t_ctx[t]] > 0
    /\ (pc[t] = "idle" /\ pc'[t] # "idle" /\ pc'[t] # "rl_inc") =>
         /\ pc'[t] = "ru_up"
         /\ recursion[t_ctx'[t]] = 1 /\ recursion'[t_ctx'[t]] = 0
    /\ \A c \in Types :
         /\ (pending'[c] < pending[c] /\ recursion[c] > 1) =>
              rw_readers' = rw_readers /\ pc' = pc
         /\ rw_readers'[c] > rw_readers[c] =>
              \E u \in Walkers : pc[u] = "rl_down" /\ pc'[u] = "rl_unlock"
         /\ rw_readers'[c] < rw_readers[c] =>
              \E u \in Walkers : pc[u] = "ru_up" /\ pc'[u] = "idle"

\* a thread waits for the semaphore only as the first holder, and the
\* semaphore is held once for all the holds of the counter
C8_Held ==
  \A c \in Types :
    LET down == {t \in Walkers : pc[t] = "rl_down" /\ t_ctx[t] = c}
        up == {t \in Walkers : pc[t] = "ru_up" /\ t_ctx[t] = c}
    IN /\ down # {} => recursion[c] = 1 /\ pending[c] = 0
       /\ rw_readers[c] = Cardinality(up) +
                          (IF recursion[c] >= 1 /\ down = {} THEN 1 ELSE 0)

\* C8: a nested range-start, delivered while an outer one of the same context
\* holds the read lock, never waits for the semaphore, also when a writer is
\* queued for it; the semaphore is acquired only when the recursion counter
\* goes from 0 to 1 and released only when it goes from 1 to 0, by the
\* range-end matching the outermost start.
C8_NestedStartDoesNotBlock == []C8_Held /\ [][C8_Step]_vars

\* a nested range-start that found a writer queued for the semaphore has
\* passed amdgpu_mn_read_lock; the writer is still queued
C8_Witness ==
  \E t \in Walkers :
    /\ pc[t] = "walk" /\ t_queued[t]
    /\ pending[t_ctx[t]] >= 1
    /\ Writer \in rw_waiting[t_ctx[t]]

\* C11: the release callback only schedules the destroy work item; the
\* context leaves the registry, its back-references are cleared and its nodes
\* are freed only by amdgpu_mn_destroy, when the worker runs the item.
C11_Step ==
  \A c \in Types :
    /\ (c \notin work /\ c \in work') =>
         /\ mn_hash' = mn_hash /\ objects' = objects /\ bo_mn' = bo_mn
         /\ d_ctx' = d_ctx /\ pc' = pc
         /\ rw_writer' = rw_writer /\ mn_lock' = mn_lock
    /\ (c \in mn_hash /\ c \notin mn_hash') =>
         d_ctx = c /\ pc[Worker] = "de_del"

\* a released context whose work item has not run is as it was
C11_Scheduled ==
  \A c \in work :
    /\ c \in mn_hash
    /\ \A b \in BOs : NodesOf(c, b) # {} => bo_mn[b] = c

C11_ReleaseOnlySchedules == []C11_Scheduled /\ [][C11_Step]_vars

\* the release callback has returned, the work item is scheduled and the
\* context with a registered buffer is still in the registry
C11_Witness ==
  \E c \in work :
    /\ c \in mn_hash
    /\ \E b \in BOs : bo_mn[b] = c /\ NodesOf(c, b) # {}

\* the context is freed: it is not in the registry and no destroy of it runs
Freed(c) == c \notin mn_hash /\ d_ctx # c

\* C12: no buffer's bo->mn refers to a freed context, and a buffer whose
\* bo->mn is a context is on the list of a node of that context (or on the
\* list a running register call has spliced it to, or is being put on the
\* node by the register call that just set bo->mn): destroy clears the
\* back-reference of every buffer of a node before it frees the node.
C12_NoDanglingBackRef ==
  \A b \in BOs :
    bo_mn[b] # NULL =>
      /\ ~Freed(bo_mn[b])
      /\ \/ NodesOf(bo_mn[b], b) # {}
         \/ pc[Writer] = "reg_insert" /\ wl.bo = b /\ wl.ctx = bo_mn[b]
         \/ /\ pc[Writer] \in {"reg_alloc", "reg_insert"}
            /\ wl.ctx = bo_mn[b] /\ b \in wl.bos

\* destroy has cleared the list of a node, whose buffers now have
\* bo->mn = NULL, and is about to free the node
C12_Witness ==
  /\ pc[Worker] = "de_node"
  /\ d_ctx \notin mn_hash
  /\ \E n \in objects[d_ctx] : n.bos = {}
  /\ \A b \in BOs : bo_mn[b] # d_ctx

\* the registry has at most one entry for every address space and type, and
\* no two entries have the same key
C13_OnePerPair ==
  /\ \A c \in Ctxs : reg[c] <= 1
  /\ \A c1, c2 \in Ctxs :
       (reg[c1] > 0 /\ reg[c2] > 0 /\
        AMDGPU_MN_KEY(c1[1], c1[2]) = AMDGPU_MN_KEY(c2[1], c2[2])) => c1 = c2

\* the lookup returns the context of the pair when the registry has it and
\* goes on to create one otherwise; an entry is added only for a pair that
\* has none; a successful call returns the context of its own pair
C13_Step ==
  /\ \A c \in Ctxs : reg'[c] > reg[c] => reg[c] = 0
  /\ \A t \in Getters :
       LET c == <<gl[t].mm, gl[t].type>>
       IN /\ (gl[t].pc = "g_find" /\ gl'[t].pc # "g_find") =>
               IF reg[c] > 0
               THEN gl'[t].pc = "g_rel" /\ gl'[t].rmn = c /\ reg' = reg
               ELSE gl'[t].pc = "g_alloc" /\ reg' = reg
          /\ (gl[t].pc = "g_rel" /\ gl[t].ret = "ok" /\ gl'[t].pc = "idle") =>
               gl[t].rmn = c /\ reg[c] = 1

\* C13: the registry holds at most one context per (address space, kind)
\* pair, also with concurrent calls: amdgpu_mn_get returns the registered
\* context of the pair when there is one, creates and inserts one otherwise,
\* and the contexts of the two kinds of one address space are distinct.
C13_OneContextPerPair == []C13_OnePerPair /\ [][C13_Step]_vars

\* a call has found the context of its pair, which was in the registry when
\* it took the lock, a second call for the same pair waits for the lock, and
\* the context of the other kind of the address space exists too
C13_Witness ==
  \E t, u \in Getters :
    /\ t # u
    /\ gl[t].pc = "g_rel" /\ gl[t].ret = "ok"
    /\ gl[t].snap[<<gl[t].mm, gl[t].type>>] = 1
    /\ gl[u].pc = "g_lock" /\ gl[u].mm = gl[t].mm /\ gl[u].type = gl[t].type
    /\ \A type \in Types : reg[<<gl[t].mm, type>>] = 1

GetErrors == {"EINTR", "ENOMEM", "EREG"}

\* a call that returns an error leaves the registry as it found it and holds
\* neither lock
C14_Step ==
  \A t \in Getters :
    (gl[t].pc # "idle" /\ gl'[t].pc = "idle" /\ gl[t].ret # "ok") =>
       /\ gl[t].ret \in GetErrors
       /\ reg' = gl[t].snap
       /\ mn_lock' # t
       /\ \A mm \in MMs : mmap_sem'[mm] # t

\* a thread outside the call holds no lock; where the call fails it has its
\* error value
C14_Returned ==
  \A t \in Getters :
    /\ gl[t].pc = "idle" => mn_lock # t /\ \A mm \in MMs : mmap_sem[mm] # t
    /\ gl[t].pc = "g_intr" => gl[t].ret = "EINTR"
    /\ gl[t].pc = "g_free" => gl[t].ret = "EREG"
    /\ gl[t].pc = "g_rel" => gl[t].ret \in {"ok", "ENOMEM"}

\* C14: when amdgpu_mn_get fails (interrupted wait for mmap_sem, kzalloc,
\* __mmu_notifier_register) it returns an error, the registry holds what it
\* held before, and adev->mn_lock and mm->mmap_sem are released.
C14_GetFailureLeavesNothing == []C14_Returned /\ [][C14_Step]_vars

\* the notifier registration was refused for a new context while the
\* registry holds another context; the call is about to return the error
C14_Witness ==
  \E t \in Getters :
    /\ gl[t].pc = "g_free" /\ gl[t].ret = "EREG"
    /\ reg[<<gl[t].mm, gl[t].type>>] = 0
    /\ \E c \in Ctxs : reg[c] = 1
    /\ mn_lock = t /\ mmap_sem[gl[t].mm] = t

\* C15: amdgpu_mn_unregister of a buffer with bo->mn = NULL changes no tree,
\* no list and no field of a buffer, and has released adev->mn_lock when it
\* returns.
C15_Step ==
  (pc[Writer] = "un_ret" /\ pc'[Writer] # "un_ret") =>
     /\ bo_mn[wl.bo] = NULL
     /\ objects' = objects /\ bo_mn' = bo_mn /\ userptr' = userptr
     /\ bo_size' = bo_size /\ mn_hash' = mn_hash
     /\ rw_writer' = rw_writer /\ rw_readers' = rw_readers
     /\ recursion' = recursion
     /\ pc'[Writer] = "idle"

C15_Returned == pc[Writer] = "idle" => mn_lock # Writer

C15_UnregisterNullIsNoop == []C15_Returned /\ [][C15_Step]_vars

\* unregister has found bo->mn = NULL for its buffer while another buffer is
\* registered
C15_Witness ==
  /\ pc[Writer] = "un_ret"
  /\ bo_mn[wl.bo] = NULL
  /\ \E b \in BOs : bo_mn[b] # NULL

\* C16: every write of bo->mn (set by register, cleared by unregister and by
\* destroy) is made by the thread that holds the semaphore of the context
\* for writing, with no read hold on it.
C16_BackRefWrittenUnderWriteLock ==
  [][\A b \in BOs :
       bo_mn'[b] # bo_mn[b] =>
         LET c == IF bo_mn'[b] # NULL THEN bo_mn'[b] ELSE bo_mn[b]
         IN /\ rw_readers[c] = 0
            /\ \/ /\ rw_writer[c] = Writer /\ wl.ctx = c /\ wl.bo = b
                  /\ pc[Writer] \in {"reg_alloc", "un_del"}
               \/ /\ rw_writer[c] = Worker /\ d_ctx = c
                  /\ pc[Worker] = "de_node"]_vars

\* register has set bo->mn under the write lock while a range-start of the
\* same context waits for the semaphore
C16_Witness ==
  /\ pc[Writer] = "reg_insert"
  /\ bo_mn[wl.bo] = wl.ctx
  /\ rw_writer[wl.ctx] = Writer
  /\ \E t \in Walkers : pc[t] = "rl_down" /\ t_ctx[t] = wl.ctx

\* C9 as stated: the read lock of the graphics context is held from the
\* range-start to its range-end, and the read lock of the compute context is
\* released when the range-start callback returns.
C9_ComputeLockReleasedAtReturn ==
  /\ pending["GFX"] > 0 => rw_readers["GFX"] >= 1
  /\ rw_readers["HSA"] = 0

\* C9 amended: for both kinds of context the read lock taken by the range-start
\* callback is held until the matching range-end callback.
C9_LockHeldUntilRangeEnd ==
  \A c \in Types : (pending[c] > 0) <=> (rw_readers[c] >= 1)

\* the compute range-start callback has returned and the lock is held
C9_Witness ==
  /\ last.op = "range_start" /\ last.ctx = "HSA"
  /\ pending["HSA"] > 0
  /\ rw_readers["HSA"] >= 1

\* C10: a graphics walk waits for and marks every registered buffer of a
\* matching node whose mapped range intersects the invalidated range, whatever
\* the fence waits returned; a failed wait is only logged and the callback
\* reports nothing; the recursion counter follows the range-starts and
\* range-ends, so it is back at its value after the matching range-end.
C10_WalkProcessesAll ==
  /\ (last.op = "range_start" /\ last.ctx = "GFX") =>
       LET A == {b \in Registered("GFX") :
                   /\ Intersect(BoStart(b), BoLast(b), last.start, last.end - 1)
                   /\ \E n \in NodesOf("GFX", b) :
                         Intersect(n.start, n.last, last.start, last.end - 1)}
       IN /\ last.waited = A
          /\ last.marked = A
          /\ last.failed \subseteq A
          /\ last.ret = "ok"
  /\ \A c \in Types :
        /\ recursion[c] = pending[c]
        /\ pending[c] = 0 => rw_readers[c] = 0

\* the wait of buffer A failed, the wait of buffer B succeeded, both are marked
C10_Witness ==
  /\ last.op = "range_start" /\ last.ctx = "GFX"
  /\ \E A, B \in BOs :
        /\ A # B
        /\ A \in last.failed /\ A \in last.marked
        /\ B \in last.waited \ last.failed /\ B \in last.marked

\* the nodes the loop of the last walk took
Visited == {last.visited[i] : i \in DOMAIN last.visited}
\* the buffers the last walk waited for, marked or evicted
Touched == last.waited \cup last.marked \cup last.evicted

\* C17: a range-start callback of either kind for [start, end) visits exactly
\* the nodes of its context whose range intersects [start, end - 1], each of
\* them once; a node that begins at end or ends before start is not visited,
\* and none of its buffers is waited for, marked or evicted.
C17_WalkVisitsIntersecting ==
  last.op = "range_start" =>
    LET X == {n \in objects[last.ctx] :
                Intersect(n.start, n.last, last.start, last.end - 1)}
    IN /\ Visited = X
       /\ Len(last.visited) = Cardinality(X)
       /\ \A n \in objects[last.ctx] :
             (n.start >= last.end \/ n.last < last.start) =>
                n \notin Visited /\ n.bos \cap Touched = {}

\* a walk that took one node and processed a buffer of it while another node
\* of the context begins at the exclusive end of the range
C17_Witness ==
  /\ last.op = "range_start"
  /\ Len(last.visited) = 1
  /\ Touched # {}
  /\ \E n \in objects[last.ctx] : n.start = last.end /\ n.bos # {}

\* the buffers of the context of the last walk that the walk affects: those
\* registered with it whose mapped range intersects [start, end - 1]
Affected ==
  {b \in Registered(last.ctx) :
     Intersect(BoStart(b), BoLast(b), last.start, last.end - 1)}

\* C18 as stated: a walk of either kind waits for the fences of every affected
\* buffer, and a compute walk evicts them in addition, those and no others.
C18_WaitThenEvict ==
  last.op = "range_start" =>
    /\ last.waited = Affected
    /\ last.evicted = IF last.ctx = "HSA" THEN Affected ELSE {}

\* C18: a graphics walk waits for the fences of every affected buffer and then
\* marks its pages, and evicts nothing; a compute walk hands every affected
\* buffer, and no other buffer, to the eviction, and neither waits for a fence
\* nor marks a page.
C18_GfxWaitsHsaOnlyEvicts ==
  last.op = "range_start" =>
    IF last.ctx = "HSA"
    THEN last.evicted = Affected /\ last.waited = {} /\ last.marked = {}
    ELSE last.waited = Affected /\ last.marked = Affected /\ last.evicted = {}

\* a compute walk that evicted a buffer of a node and left another buffer of
\* the same node alone
C18_Witness ==
  /\ last.op = "range_start" /\ last.ctx = "HSA"
  /\ \E n \in Visited :
        /\ n.bos \cap last.evicted # {}
        /\ n.bos \ last.evicted # {}
  /\ last.waited = {}

\* a call of create_obj_handle that returned a handle
CreateStep ==
  /\ <<alloc_idr, bo_interval_tree>>' # <<alloc_idr, bo_interval_tree>>
  /\ h_last'.op = "create" /\ h_last'.ret >= 0

\* C19, the calls: the handle a create returns was not in the table when it
\* was called and is in it afterwards, every other handle keeps its record,
\* and a handle leaves the table only by the remove call it is handed to.
C19_Step ==
  /\ CreateStep =>
       LET h == h_last'.ret
       IN /\ h \notin LiveHandles
          /\ LiveHandles' = LiveHandles \cup {h}
          /\ \A x \in LiveHandles : alloc_idr'[x] = alloc_idr[x]
  /\ \A h \in LiveHandles \ LiveHandles' :
        h_last'.op = "remove" /\ h_last'.handle = h

\* C19, the states: every handle of the table has a record of its own, the
\* tree holds as many live nodes with some contents as there are handles
\* whose record has them.
C19_OneRecordPerHandle ==
  \A b \in BagToSet(bo_interval_tree)
             \cup {alloc_idr[h] : h \in LiveHandles} :
     ~b.freed =>
        CopiesIn(b, bo_interval_tree) =
           Cardinality({h \in LiveHandles : alloc_idr[h] = b})

\* C19: whatever create and remove calls are made on a handle table, create
\* never returns a handle that is in the table; no two live handles are the
\* same value, every live handle has exactly one record, and a value is
\* returned again only after it was removed.
C19_NoLiveHandleReturned == []C19_OneRecordPerHandle /\ [][C19_Step]_vars

\* handle 1 was removed and issued again while handle 2 stayed in the table;
\* both stand for records with the same contents, each with its own node
C19_Witness ==
  /\ h_last.op = "create" /\ h_last.ret = 1
  /\ {1, 2} \subseteq LiveHandles
  /\ alloc_idr[1] = alloc_idr[2]
  /\ CopiesIn(alloc_idr[1], bo_interval_tree) = 2

\* C20 as stated: a create that succeeds returns a handle above every handle
\* that is in the table.
C20_MonotonicallyIssued ==
  [][CreateStep => \A x \in LiveHandles : h_last'.ret > x]_vars

\* C20: a create that succeeds returns the lowest value from MIN_IDR_ID up
\* that is not in the table; it is above every live handle only when the live
\* handles are MIN_IDR_ID .. k without a gap, and below a live handle when a
\* lower one was removed before.
C20_LowestFreeIssued ==
  [][CreateStep =>
       /\ h_last'.ret >= MIN_IDR_ID
       /\ h_last'.ret \notin LiveHandles
       /\ \A x \in MIN_IDR_ID..(h_last'.ret - 1) : x \in LiveHandles]_vars

\* a create has returned a handle below one that was issued before it and is
\* still in the table
C20_Witness ==
  /\ h_last.op = "create" /\ h_last.ret >= MIN_IDR_ID
  /\ \E x \in LiveHandles : x > h_last.ret

\* C21 as stated: translate of a handle that is not in the table returns null
\* and does not fault; translate of a handle of the table returns the mem
\* stored under it.
C21_TranslateNullWhenNotLive ==
  h_last.op = "translate" =>
    /\ ~h_last.fault
    /\ h_last.ret = IF h_last.handle \in LiveHandles
                    THEN alloc_idr[h_last.handle].mem ELSE 0

\* the handles whose record has a range that intersects [start, lst]
LiveIn(start, lst) ==
  {h \in LiveHandles :
     Intersect(alloc_idr[h].start, alloc_idr[h].last, start, lst)}

\* C22 as stated: find_by_range returns a record exactly when it is the only
\* live record whose range intersects the range asked for; with no such
\* record or more than one it returns null and logs one error.
C22_FindReturnsOnlyLiveRecord ==
  h_last.op = "find" =>
    LET L == LiveIn(h_last.start, h_last.last)
    IN IF Cardinality(L) = 1
       THEN /\ \A h \in L : h_last.bo = alloc_idr[h]
            /\ h_last.log = 0
       ELSE h_last.bo = NoBo /\ h_last.log = 1

\* C23 as stated, the calls: a create that returns an error leaves the idr
\* and the interval tree as they were.
C23_Step ==
  (h_last'.op = "create" /\ h_last'.ret < 0) =>
     UNCHANGED <<alloc_idr, bo_interval_tree>>

\* C23 as stated, the states: every node of the tree is the node of a record
\* that a handle of the table stands for.
C23_NodesLive ==
  \A b \in BagToSet(bo_interval_tree) :
     \E h \in LiveHandles : alloc_idr[h] = b

\* C23 as stated: a failing create_handle returns a negative error and leaves
\* the identifier table and the interval index as they were, so every node of
\* the index belongs to a live record.
C23_FailedCreateLeavesNothing == []C23_NodesLive /\ [][C23_Step]_vars

\* C24 as stated: no two live records of the table have intersecting ranges.
C24_NoIntersectingLiveRecords ==
  \A h1, h2 \in LiveHandles :
     h1 # h2 => ~Intersect(alloc_idr[h1].start, alloc_idr[h1].last,
                          alloc_idr[h2].start, alloc_idr[h2].last)

\* the nodes of the tree whose kfd_bo is allocated
LiveNodes(tree) == BagOf(tree, {b \in BagToSet(tree) : ~b.freed})

\* C25: remove_handle of a handle of the table drops the reference of the
\* record's kfd_ipc_obj once when it has one and not at all otherwise, takes
\* the handle out of the idr and one node with the record's range out of the
\* tree, and leaves every other handle, record and node of a live record as
\* it was; remove_handle of a negative handle changes nothing.
C25_RemoveFrame ==
  [][h_last'.op = "remove" =>
       LET h == h_last'.handle
       IN IF h < 0
          THEN /\ UNCHANGED <<alloc_idr, bo_interval_tree>>
               /\ h_last'.put = 0
          ELSE /\ h \in LiveHandles
               /\ h_last'.put =
                     (IF alloc_idr[h].kfd_ipc_obj # NULL THEN 1 ELSE 0)
               /\ LiveHandles' = LiveHandles \ {h}
               /\ \A x \in LiveHandles' : alloc_idr'[x] = alloc_idr[x]
               /\ LiveNodes(bo_interval_tree)' =
                     LiveNodes(bo_interval_tree) (-) SetToBag({alloc_idr[h]})
    ]_vars

\* the handle of a record with a kfd_ipc_obj was removed, the reference was
\* dropped, and a handle with a record of the same contents is still in the
\* table with its node
C25_Witness ==
  /\ h_last.op = "remove" /\ h_last.handle \in {1, 2} /\ h_last.put = 1
  /\ h_last.handle \notin LiveHandles
  /\ \E x \in LiveHandles :
        /\ alloc_idr[x].kfd_ipc_obj # NULL
        /\ CopiesIn(alloc_idr[x], bo_interval_tree) = 1

\* C26 as stated: no node of the interval tree of a notifier context has its
\* last address below its start.
C26_NoInvertedNode ==
  \A c \in Types : \A n \in objects[c] : n.start <= n.last

\* C27, the states: the counter of a pdd is never negative, and the queues of
\* the pdd are active exactly when it is 0.
C27_ActiveIffZero ==
  \A d \in Pdds :
     /\ pdds[d].evicted >= 0
     /\ pdds[d].state = "Active" <=> pdds[d].evicted = 0

\* C27, the calls: a new pdd has the counter 0; an eviction that takes place
\* adds 1 to the counter of every pdd, a restore that succeeds takes 1 off
\* every counter that is not 0, and a call that fails changes no counter.
C27_Step ==
  /\ \A d \in Pdds' \ Pdds : pdds'[d].evicted = 0 /\ e_last'.op = "create"
  /\ \A d \in Pdds :
        /\ d \in Pdds'
        /\ pdds'[d].evicted =
              IF e_last'.op = "evict" /\ e_last'.ok
              THEN pdds[d].evicted + 1
              ELSE IF e_last'.op = "restore" /\ e_last'.ok
                      /\ pdds[d].evicted > 0
              THEN pdds[d].evicted - 1
              ELSE pdds[d].evicted

C28_OneProcessPerMm ==
  /\ \A p \in kfd_processes_table : \A q \in kfd_processes_table :
        procs[p].mm = procs[q].mm => p = q
  /\ Cardinality(created) <= 1

\* a call is about to return the process that an earlier call has created
C28_Witness ==
  \E t \in Creators :
     /\ ppc[t] = "c_unlock"
     /\ p_loc[t] \in created
     /\ p_loc[t] \in kfd_processes_table

\* C29, the states: a process whose release work is queued has the count 0,
\* and a process that a lookup has taken a reference on and that its caller
\* has not yet passed to kfd_unref_process has a count above 0 and has not
\* been freed by the release work.
C29_HeldNotReleased ==
  /\ \A p \in PIds : procs[p].work => procs[p].ref = 0
  /\ \A t \in Lookers :
        ppc[t] \in {"l_unlock", "l_held"} /\ p_loc[t] > 0
          => /\ procs[p_loc[t]].ref > 0
             /\ ~procs[p_loc[t]].work
             /\ procs[p_loc[t]].st # "freed"

\* C29, the steps: the release work is queued by the step that takes the
\* count to 0, and no step increments a count that has reached 0.
C29_Step ==
  \A p \in PIds :
     /\ procs'[p].work /\ ~procs[p].work
          => procs[p].ref = 1 /\ procs'[p].ref = 0
     /\ procs'[p].ref > procs[p].ref
          => procs[p].ref > 0 \/ procs[p].st = "none"

\* C29: under the lookups that take a reference, kfd_unref_process and the
\* release notification of the mm, a process is handed to the release work
\* only when its count has reached 0, no lookup returns or increments the
\* count of a process whose count has reached 0, and a process that a lookup
\* has returned is not released before its caller's kfd_unref_process.
C29_ReleaseAtZero == []C29_HeldNotReleased /\ [][C29_Step]_vars

\* the mm has been torn down and the notification has dropped its reference,
\* while a thread still holds the process that its lookup returned
C29_Witness ==
  /\ ppc[Notifier] = "n_done" /\ rcu_cb = 0
  /\ \E t \in Lookers :
        /\ ppc[t] = "l_held"
        /\ procs[p_loc[t]].st = "ok"
        /\ procs[p_loc[t]].ref = 1

\* C30, the states: a process whose last reference is about to be dropped by
\* kfd_process_destroy_delayed, whose release work is queued or has run, is
\* not in the table, and no thread in a read section has found it; the
\* reference is dropped after the notification has unhashed the process.
C30_Unfindable ==
  /\ \A p \in PIds :
        procs[p].work \/ procs[p].st = "freed"
          => /\ p \notin kfd_processes_table
             /\ \A t \in srcu_readers : p_loc[t] # p
  /\ rcu_cb # 0
       => /\ rcu_cb \notin kfd_processes_table
          /\ ppc[Notifier] = "n_done"
          /\ \A t \in srcu_readers : p_loc[t] # rcu_cb

\* C30, the steps: no process is added to the table again once the
\* notification has unhashed it.
C30_Step ==
  \A p \in PIds :
     p \in kfd_processes_table' /\ p \notin kfd_processes_table
       => procs[p].st = "none"

\* C30: the release work of a process runs only after the process has been
\* taken out of the table and the readers that could have found it have
\* finished, so no lookup finds it while or after the release work runs; the
\* last reference is dropped only after the unhashing in the release
\* notification.
C30_ReleaseAfterUnhash == []C30_Unfindable /\ [][C30_Step]_vars

\* the release work has freed a process while a thread is in a read section
\* of the table
C30_Witness ==
  /\ \E p \in PIds : procs[p].st = "freed"
  /\ \E t \in srcu_readers : ppc[t] = "l_unlock" /\ p_loc[t] = 0

\* C31, the steps: the loop of a register call that finds no node to reuse
\* leaves the tree as it is; the return on a failed kmalloc of the node
\* releases the write lock of the context and changes no tree and no
\* bo->mn, and the bo->mn of its buffer is NULL.
C31_Step ==
  /\ pc[Writer] = "reg_loop" /\ pc'[Writer] = "reg_alloc" /\ ~wl'.node
       => objects' = objects /\ bo_mn' = bo_mn
  /\ pc[Writer] = "reg_alloc" /\ pc'[Writer] = "idle"
       => /\ ~wl.node
          /\ last'.op = "register" /\ last'.ret = "ENOMEM"
          /\ rw_writer[wl.ctx] = Writer /\ rw_writer'[wl.ctx] = NULL
          /\ objects' = objects
          /\ bo_mn' = bo_mn
          /\ bo_mn[wl.bo] = NULL
          /\ \A c \in Types : Registered(c)' = Registered(c)

\* C31: when amdgpu_mn_register fails because the node cannot be allocated, it
\* returns -ENOMEM with the write lock of the context released, with the
\* interval tree and the buffers registered unchanged, and with bo->mn of the
\* buffer still NULL.
C31_RegisterNoMem == [][C31_Step]_vars

\* the call has failed on the allocation of the node while other buffers are
\* registered with the context; nobody holds its write lock
C31_Witness ==
  /\ last.op = "register" /\ last.ret = "ENOMEM"
  /\ pc[Writer] = "idle"
  /\ \E c \in Types : objects[c] # {} /\ rw_writer[c] = NULL

\* a call is under way: a thread is inside one, or a range-start waits for
\* its range-end
Started ==
  \/ \E t \in Threads : pc[t] # "idle"
  \/ gl["g1"].pc # "idle"
  \/ pending["GFX"] > 0

\* some call that is under way can take a step
NoDeadlock ==
  Started => ENABLED (LiveSteps \/ LiveEnd \/ RangeStartDown \/ W_Wait
                      \/ D_Lock \/ D_Wait \/ GetLock)

\* the calls that have started come to their end
WalkersDone == \A t \in Walkers : pc[t] # "idle" ~> pc[t] = "idle"
WriterDone == pc[Writer] # "idle" ~> pc[Writer] = "idle"
WorkerDone == pc[Worker] # "idle" ~> pc[Worker] = "idle"
GetterDone == gl["g1"].pc # "idle" ~> gl["g1"].pc = "idle"

\* C32: however amdgpu_mn_get, register, unregister, the range-start and
\* range-end callbacks (nested ones too) and amdgpu_mn_destroy interleave,
\* the registry mutex, mmap_sem, the semaphore of the context and its
\* read_lock mutex never deadlock, and, every range-start being followed by
\* its range-end, every call that has started comes to its end.
C32_EveryCallCompletes ==
  /\ []NoDeadlock
  /\ WalkersDone /\ WriterDone /\ WorkerDone /\ GetterDone

\* C33: the wait called with wait_all returns a positive value only when the
\* exclusive fence and every shared fence of the object have signaled, 0 when
\* the time was up first, and a negative value when the wait was interrupted.
C33_WaitAllWaitsForAll ==
  resv.pc = "done" /\ resv.wait_all /\ resv.ret > 0
    => /\ resv.excl # 1
       /\ \A k \in 1..Len(resv.shared) : resv.shared[k]

C39_CallbacksBalanced ==
  wa.pc = "done" => wa.cbs = {} /\ wa.removed = wa.added

\* a call that had added a callback to the first fence and found the second
\* one signaled has returned
C39_Witness ==
  /\ wa.pc = "done" /\ wa.path = "signaled"
  /\ wa.added = {1} /\ wa.removed = {1}

\* C34: when create_process has failed, at whichever step, the process is
\* not in the process table, its PASID has been given back, its MMU notifier
\* is not registered, no handle is left in a table of a device, and every
\* memory object that was made for it is unmapped from every device and has
\* been freed once.
C34_FailedCreateReleases ==
  cp.pc = "done" /\ cp.err < 0
    => /\ ~cp.table /\ ~cp.pasid /\ ~cp.notifier /\ ~cp.alloc
       /\ Handled(cp) = {}
       /\ \A m \in GpuMems :
             /\ cp.mapped[m] = {}
             /\ cp.frees[m] = (IF m \in cp.made THEN 1 ELSE 0)

\* create_process has failed in kfd_process_init_cwsr, after the IB memory
\* of both devices had got its handle
C34_Witness ==
  /\ cp.pc = "done" /\ cp.err < 0 /\ cp.fault = "sync"
  /\ cp.k = Cardinality(Devs) + 1
  /\ cp.frees[1] = 1 /\ cp.frees[2] = 1 /\ cp.frees[3] = 1

\* C35: when create_process has failed, the reference count of the lead
\* thread is what it was before the call.
C35_LeadThreadReleased ==
  cp.pc = "done" /\ cp.err < 0 => cp.lead = 0

\* C36: after kfd_process_free_outstanding_kfd_bos has run for a process
\* whose handle creations all succeeded, the handle table of every device
\* and the interval tree are empty, and every buffer that had a handle was
\* unmapped from every device of the process and freed once.
C36_FreeOutstanding ==
  cp.swept /\ ~cp.hfail
    => /\ Handled(cp) = {}
       /\ cp.tree = {} /\ ~cp.dangling
       /\ \A m \in GpuMems :
             cp.unmaps[m] # {} => cp.unmaps[m] = Devs /\ cp.frees[m] = 1
       /\ \A m \in GpuMems : cp.mapped[m] = {} /\ cp.frees[m] <= 1

\* the process that is released had buffers with handles on both devices
C36_Witness ==
  /\ cp.pc = "released" /\ cp.swept /\ ~cp.hfail
  /\ \A m \in GpuMems : cp.unmaps[m] = Devs /\ cp.frees[m] = 1

\* C37: once kfd_process_notifier_release has returned for a process, neither
\* its eviction work nor its restore work is queued or running.
C37_NoWorkAfterRelease ==
  ew.npc = "returned"
    => \A w \in Works : ~ew.pending[w] /\ ~ew.running[w]

====
